---- MODULE Spec2Model ----
(***************************************************************************)
(* Model of the intraday Opening-Range-Breakout trading bot:               *)
(*   main.py               the session loop (orchestrator)                 *)
(*   src/strategy.py       Signal, Position, ORBStrategy, stop/target and  *)
(*                         quantity helpers                                *)
(*   src/risk_manager.py   RiskManager                                     *)
(*   src/order_manager.py  place_order / wait_for_fill / exit_all_positions*)
(*   config/settings.py    tunables                                        *)
(*                                                                         *)
(* Money and prices are integers in paise (1 rupee = 100), so round(x, 2)  *)
(* of the source is rounding to an integer here.  Clock times are the      *)
(* ordinal positions of the configured HH:MM marks of the trading day.     *)
(*                                                                         *)
(* Spec, CalmSpec and LiveSpec are sessions of main(); CallSpec calls the  *)
(* strategy and order functions directly, on any input of their domains.   *)
(***************************************************************************)
EXTENDS Integers, Sequences, FiniteSets, TLC

\* ---------------------------------------------------------------- bounds
\* number of ranked instruments monitored (TOP_N_STOCKS is 50 in the source)
NumKeys == 2
\* number of sleeps of the session loop explored, in the open market
MaxCycles == 2
\* number of sleeps of the session loop explored, in the calm market
MaxCyclesCalm == 6
\* number of trades booked by direct calls of record_trade
MaxRecorded == 2
\* longest wait, in seconds, handed to direct calls of wait_for_fill
MaxWait == 7

\* ------------------------------------------------- config/settings.py
DAILY_PROFIT_TARGET == 5000
DAILY_MAX_LOSS == 5000
EFFECTIVE_CAPITAL == 1250000
RISK_PER_TRADE == 25000
EMA_SLOW == 21
RSI_BUY_MIN == 45
RSI_BUY_MAX == 70
RSI_SELL_MIN == 30
RSI_SELL_MAX == 55
\* VOLUME_MULTIPLIER = 1.5, ATR_STOP_MULTIPLIER = 1.5, ATR_TARGET_MULTIPLIER = 2.5,
\* TRAILING_ATR_MULTIPLIER = 1.5, each times ten
VOLUME_MULTIPLIER_X10 == 15
ATR_STOP_MULTIPLIER_X10 == 15
ATR_TARGET_MULTIPLIER_X10 == 25
TRAILING_ATR_MULTIPLIER_X10 == 15
\* STOP_LOSS_PCT = 0.005 and TARGET_PCT = 0.0075, each times ten thousand
STOP_LOSS_PCT_X10000 == 50
TARGET_PCT_X10000 == 75
USE_VWAP_FILTER == TRUE
MAX_TRADES_PER_DAY == 3
MAX_CONSECUTIVE_LOSSES == 3
\* the clock marks of the day, in order: 09:35, 12:00, 13:30, 14:30, 15:10
ORB_END_TIME == 1
MID_DAY_PAUSE_START == 2
MID_DAY_PAUSE_END == 3
TRADING_STOP_TIME == 4
FORCE_EXIT_TIME == 5

\* --------------------------------------------------------- input domains
\* closes of the latest bar the market may show (paise): multiples of 4 rupees, for
\* which no stop or target of the percentage fallback lands on a half paisa, where
\* the binary floating point of the source decides the rounding
Prices == {9600, 10000, 10400, 10800}
\* last traded prices get_ltp may return (paise)
Ltps == {10000, 10200, 10400}
\* average fill price minus the reference price of the order
Slippages == {-10, 0}
\* fills at the reference price only
NoSlippage == {0}
\* ATR of the latest bar; 0 is "no ATR available"
AtrValues == {0, 100, 200}
\* (fast EMA, slow EMA) of the latest bar
EmaPairs == {<<50, 48>>, <<48, 50>>}
RsiValues == {35, 65}
\* volume of the latest bar, against a volume moving average of 100
Volumes == {100, 150}
VolMa == 100
\* VWAP of the latest bar; 0 is "no VWAP available"
Vwaps == {0, 10150}
\* opening ranges get_opening_range may return
OpeningRanges == {[or_high |-> 10200, or_low |-> 10100]}
\* opening ranges it may return when the first candles of the day are revised
\* between two polls
RevisedRanges == OpeningRanges \cup {[or_high |-> 10300, or_low |-> 10000]}

Keys == 1..NumKeys
\* ranked_stocks in ranked order
instrument_keys == [i \in 1..NumKeys |-> i]
\* active_key = None
NoKey == 0
\* get_ltp returned None (or 0.0, which every caller treats the same way)
NoLtp == 0

\* ------------------------------------------------------------ arithmetic
Max(a, b) == IF a >= b THEN a ELSE b
Min(a, b) == IF a <= b THEN a ELSE b

\* int(n / d) for d > 0: truncation toward zero
IntDiv(n, d) == IF n >= 0 THEN n \div d ELSE -((-n) \div d)

\* round(n / d) to the nearest integer, ties to even (Python's round)
RoundDiv(n, d) ==
  LET q == n \div d
      r == n % d
  IN  IF 2 * r < d THEN q
      ELSE IF 2 * r > d THEN q + 1
      ELSE IF q % 2 = 0 THEN q ELSE q + 1

\* ------------------------------------------------- strategy.py: records
\* strategies[key].position = None
NoPosition ==
  [side |-> "NONE", entry_price |-> 0, quantity |-> 0, stop_loss |-> 0,
   target |-> 0, initial_risk |-> 0, peak_price |-> 0, trailing_active |-> FALSE]

Position(entry_price, quantity, stop_loss, target, side, initial_risk, peak_price) ==
  [side |-> side, entry_price |-> entry_price, quantity |-> quantity,
   stop_loss |-> stop_loss, target |-> target, initial_risk |-> initial_risk,
   peak_price |-> peak_price, trailing_active |-> FALSE]

\* of the reason text only the exit check that fired (set by ExitSignal) and the
\* entry that was refused (set by RefusedSignal) are kept
Signal(action, ltp, quantity, stop_loss, target, side) ==
  [action |-> action, ltp |-> ltp, quantity |-> quantity,
   stop_loss |-> stop_loss, target |-> target, side |-> side, reason |-> "none"]

\* Signal("EXIT", instrument_key, reason, close, p.quantity, side=p.side)
ExitSignal(reason, close, p) ==
  [Signal("EXIT", close, p.quantity, 0, 0, p.side) EXCEPT !.reason = reason]

\* Signal("HOLD", instrument_key, "BUY signal valid but insufficient capital", close, 0),
\* likewise for SHORT
RefusedSignal(close, side) ==
  [Signal("HOLD", close, 0, 0, 0, "BUY") EXCEPT !.reason = "insufficient capital for " \o side]

\* hold = Signal("HOLD", instrument_key, "no action", 0, 0)
HoldSignal == Signal("HOLD", 0, 0, 0, 0, "BUY")

\* Position.unrealised_pnl
unrealised_pnl(p, ltp) ==
  IF p.side = "BUY" THEN (ltp - p.entry_price) * p.quantity
  ELSE (p.entry_price - ltp) * p.quantity

\* ------------------------------------------- strategy.py: Position logic
\* the breakeven buffer 0.10 of update_trailing
BREAKEVEN_BUFFER == 10

\* update_trailing: the peak price after seeing ltp
UpdatePeak(p, ltp) ==
  IF p.side = "BUY"
  THEN (IF ltp > p.peak_price THEN ltp ELSE p.peak_price)
  ELSE (IF p.peak_price = 0 \/ ltp < p.peak_price THEN ltp ELSE p.peak_price)

\* update_trailing: trailing activates now (1R of profit reached, not yet active)
TrailingActivates(p, ltp) ==
  /\ ~p.trailing_active
  /\ p.initial_risk > 0
  /\ IF p.side = "BUY" THEN ltp >= p.entry_price + p.initial_risk
     ELSE ltp <= p.entry_price - p.initial_risk

\* a faulty breakeven jump: the stop is set one initial risk beyond the entry
BreakevenStopAtOneR(p) ==
  IF p.side = "BUY" THEN RoundDiv(p.entry_price + p.initial_risk, 1)
  ELSE RoundDiv(p.entry_price - p.initial_risk, 1)

\* update_trailing: the stop after the one-time breakeven jump
BreakevenStop(p) ==
  IF p.side = "BUY" THEN RoundDiv(p.entry_price + BREAKEVEN_BUFFER, 1)
  ELSE RoundDiv(p.entry_price - BREAKEVEN_BUFFER, 1)

\* update_trailing: the candidate stop, TRAILING_ATR_MULTIPLIER x ATR off the peak
TrailStop(p, atr) ==
  IF p.side = "BUY"
  THEN RoundDiv(p.peak_price * 10 - TRAILING_ATR_MULTIPLIER_X10 * atr, 10)
  ELSE RoundDiv(p.peak_price * 10 + TRAILING_ATR_MULTIPLIER_X10 * atr, 10)

\* update_trailing: the candidate replaces the stop only if strictly more favourable
TrailStopAccepted(side, trail_stop, stop_loss) ==
  IF side = "BUY" THEN trail_stop > stop_loss ELSE trail_stop < stop_loss

\* Position.update_trailing(ltp, atr)
update_trailing(p, ltp, atr) ==
  LET p1 == [p EXCEPT !.peak_price = UpdatePeak(p, ltp)]
      p2 == IF TrailingActivates(p1, ltp)
            THEN [p1 EXCEPT !.trailing_active = TRUE, !.stop_loss = BreakevenStop(p1)]
            ELSE p1
  IN  IF p2.trailing_active /\ atr > 0
         /\ TrailStopAccepted(p2.side, TrailStop(p2, atr), p2.stop_loss)
      THEN [p2 EXCEPT !.stop_loss = TrailStop(p2, atr)]
      ELSE p2

\* ------------------------------------------------ strategy.py: helpers
\* the tunables the helpers read from cfg at each call
Settings ==
  [ATR_STOP_MULTIPLIER_X10 |-> ATR_STOP_MULTIPLIER_X10,
   ATR_TARGET_MULTIPLIER_X10 |-> ATR_TARGET_MULTIPLIER_X10,
   STOP_LOSS_PCT_X10000 |-> STOP_LOSS_PCT_X10000,
   TARGET_PCT_X10000 |-> TARGET_PCT_X10000,
   RISK_PER_TRADE |-> RISK_PER_TRADE]

\* risk_distance of _calc_stop_target / risk_per_share of _calc_quantity, times 10000
RiskDistance(cfg, price, atr) ==
  IF atr > 0 THEN atr * cfg.ATR_STOP_MULTIPLIER_X10 * 1000
  ELSE price * cfg.STOP_LOSS_PCT_X10000

\* target_distance of _calc_stop_target, times 10000
TargetDistance(cfg, price, atr) ==
  IF atr > 0 THEN atr * cfg.ATR_TARGET_MULTIPLIER_X10 * 1000
  ELSE price * cfg.TARGET_PCT_X10000

\* a faulty _calc_stop_target: the SHORT side is not mirrored
StopTargetAsLong(cfg, price, atr, side) ==
  [stop_loss |-> RoundDiv(price * 10000 - RiskDistance(cfg, price, atr), 10000),
   target |-> RoundDiv(price * 10000 + TargetDistance(cfg, price, atr), 10000),
   initial_risk |-> RoundDiv(RiskDistance(cfg, price, atr), 10000)]

\* _calc_stop_target under the settings cfg -> (stop_loss, target, initial_risk)
StopTarget(cfg, price, atr, side) ==
  LET rd == RiskDistance(cfg, price, atr)
      td == TargetDistance(cfg, price, atr)
  IN  IF side = "BUY"
      THEN [stop_loss |-> RoundDiv(price * 10000 - rd, 10000),
            target |-> RoundDiv(price * 10000 + td, 10000),
            initial_risk |-> RoundDiv(rd, 10000)]
      ELSE [stop_loss |-> RoundDiv(price * 10000 + rd, 10000),
            target |-> RoundDiv(price * 10000 - td, 10000),
            initial_risk |-> RoundDiv(rd, 10000)]

\* a faulty _calc_quantity: the quantity is not capped by the risk budget
QuantityByCapitalOnly(cfg, price, available_capital, atr) ==
  IF price <= 0 THEN 0
  ELSE IF RiskDistance(cfg, price, atr) <= 0 THEN 0
  ELSE Max(IntDiv(available_capital, price), 0)

\* a faulty _calc_quantity: the quantity is not capped by the available capital
QuantityByRiskOnly(cfg, price, available_capital, atr) ==
  IF price <= 0 THEN 0
  ELSE IF RiskDistance(cfg, price, atr) <= 0 THEN 0
  ELSE Max(IntDiv(cfg.RISK_PER_TRADE * 10000, RiskDistance(cfg, price, atr)), 0)

\* _calc_quantity under the settings cfg
Quantity(cfg, price, available_capital, atr) ==
  IF price <= 0 THEN 0
  ELSE IF RiskDistance(cfg, price, atr) <= 0 THEN 0
  ELSE LET qty_by_risk == IntDiv(cfg.RISK_PER_TRADE * 10000, RiskDistance(cfg, price, atr))
           qty_by_capital == IntDiv(available_capital, price)
       IN  Max(Min(qty_by_risk, qty_by_capital), 0)

\* _calc_stop_target(price, atr, side) as configured
calc_stop_target(price, atr, side) == StopTarget(Settings, price, atr, side)

\* _calc_quantity(price, available_capital, atr) as configured
calc_quantity(price, available_capital, atr) ==
  Quantity(Settings, price, available_capital, atr)

\* ------------------------------------- strategy.py: ORBStrategy
\* ORBStrategy.__init__
NewStrategy ==
  [or_high |-> 0, or_low |-> 0, or_established |-> FALSE, position |-> NoPosition]

\* the enriched latest bar of a candle frame of `len` rows
Bars ==
  [len : {EMA_SLOW + 5}, close : Prices, ema : EmaPairs, rsi : RsiValues,
   volume : Volumes, atr : AtrValues, vwap : Vwaps]

\* a frame too short for the indicators (its latest bar is never read)
ShortBar ==
  [len |-> EMA_SLOW + 4, close |-> 10000, ema |-> <<50, 48>>, rsi |-> 50,
   volume |-> 100, atr |-> 0, vwap |-> 0]

\* an empty frame (get_candles found no candles)
EmptyBar == [ShortBar EXCEPT !.len = 0]

\* the latest bars of a calm market: one close above the opening range, volume
\* and VWAP confirming, the trend and momentum free
CalmBars ==
  [len : {EMA_SLOW + 5}, close : {10400}, ema : EmaPairs, rsi : RsiValues,
   volume : {150}, atr : {200}, vwap : {10150}]

\* the latest bars of a rough market: closes above the opening range, the trend
\* and momentum free
RoughBars ==
  [len : {EMA_SLOW + 5}, close : {10400, 10800}, ema : EmaPairs, rsi : RsiValues,
   volume : {150}, atr : {200}, vwap : {10150}]

\* ---------------------------------------------------------- notifier.py
\* what becomes of a notification in _send_email: it is sent; it is skipped because
\* the credentials are not set; the SMTP session fails with an smtplib.SMTPException,
\* which is caught; or the connection fails with an OSError (refused, unreachable,
\* timed out), which is not an SMTPException and leaves _send_email as it was raised
SinkOutcomes == {"sent", "no_credentials", "smtp_error", "os_error"}
\* a sink that delivers every notification
ReliableSink == {"sent"}

\* the notifying call raises
SinkRaises(outcome) == outcome = "os_error"

\* the fault a step records for its notifications s1 and then s2: the one that
\* raised, and otherwise the first that was not sent
SinkFault(s1, s2) ==
  IF SinkRaises(s1) THEN s1
  ELSE IF SinkRaises(s2) THEN s2
  ELSE IF s1 # "sent" THEN s1
  ELSE IF s2 # "sent" THEN s2
  ELSE "none"

\* the market the session runs in: the frames get_candles may return, the prices
\* get_ltp may return, the slippage of fills, the opening ranges
\* get_opening_range may return, what becomes of the notifications, the
\* exceptions the data calls of the scan may raise, and the number of sleeps explored
OpenMarket ==
  [bars |-> Bars \cup {ShortBar}, ltps |-> Ltps, slippages |-> NoSlippage,
   ranges |-> OpeningRanges, sink |-> ReliableSink, faults |-> {},
   cycles |-> MaxCycles]
CalmMarket ==
  [bars |-> CalmBars, ltps |-> {10400}, slippages |-> Slippages,
   ranges |-> OpeningRanges, sink |-> ReliableSink, faults |-> {},
   cycles |-> MaxCyclesCalm]
RoughMarket ==
  [bars |-> RoughBars \cup {ShortBar}, ltps |-> {10000, 10400},
   slippages |-> NoSlippage, ranges |-> RevisedRanges, sink |-> SinkOutcomes,
   faults |-> {"fetch_error"}, cycles |-> MaxCycles]

\* generate_signal, "Manage existing position": the Position the exit checks see,
\* update_trailing having run first when the bar carries an ATR
MaintainedPosition(p0, bar) ==
  IF bar.atr > 0 THEN update_trailing(p0, bar.close, bar.atr) ELSE p0

\* faulty exit checks: the EMA reversal is looked at whether or not trailing is active
ExitReasonReversalAlways(p, bar) ==
  IF p.side = "BUY" /\ bar.close <= p.stop_loss THEN "stop-loss"
  ELSE IF p.side = "SHORT" /\ bar.close >= p.stop_loss THEN "stop-loss"
  ELSE IF p.side = "BUY" /\ bar.close >= p.target THEN "target"
  ELSE IF p.side = "SHORT" /\ bar.close <= p.target THEN "target"
  ELSE IF p.side = "BUY" /\ bar.ema[1] < bar.ema[2] /\ bar.rsi < 40 THEN "reversal"
  ELSE IF p.side = "SHORT" /\ bar.ema[1] > bar.ema[2] /\ bar.rsi > 60 THEN "reversal"
  ELSE "none"

\* generate_signal, "Manage existing position": the first exit check that fires on
\* the Position p, or "none"
ExitReason(p, bar) ==
  IF p.side = "BUY" /\ bar.close <= p.stop_loss THEN "stop-loss"
  ELSE IF p.side = "SHORT" /\ bar.close >= p.stop_loss THEN "stop-loss"
  ELSE IF p.side = "BUY" /\ bar.close >= p.target THEN "target"
  ELSE IF p.side = "SHORT" /\ bar.close <= p.target THEN "target"
  ELSE IF ~p.trailing_active /\ p.side = "BUY"
          /\ bar.ema[1] < bar.ema[2] /\ bar.rsi < 40 THEN "reversal"
  ELSE IF ~p.trailing_active /\ p.side = "SHORT"
          /\ bar.ema[1] > bar.ema[2] /\ bar.rsi > 60 THEN "reversal"
  ELSE "none"

\* a faulty order: the exit checks on the Position as the cycle found it, the
\* trailing update only when none fires
ManagePositionChecksFirst(p0, bar) ==
  IF ExitReason(p0, bar) # "none"
  THEN [signal |-> ExitSignal(ExitReason(p0, bar), bar.close, p0),
        position |-> NoPosition]
  ELSE [signal |-> Signal("HOLD", bar.close, 0, 0, 0, p0.side),
        position |-> MaintainedPosition(p0, bar)]

\* generate_signal, "Manage existing position": trailing update, then the exit checks
ManagePosition(p0, bar) ==
  LET p == MaintainedPosition(p0, bar)
      reason == ExitReason(p, bar)
  IN  IF reason # "none"
      THEN [signal |-> ExitSignal(reason, bar.close, p), position |-> NoPosition]
      ELSE [signal |-> Signal("HOLD", bar.close, 0, 0, 0, p.side), position |-> p]

\* a faulty confirmation stack of the long entry: the volume is not looked at
LongConfirmedWithoutVolume(st, bar) ==
  /\ bar.close > st.or_high
  /\ bar.ema[1] > bar.ema[2]
  /\ RSI_BUY_MIN <= bar.rsi /\ bar.rsi <= RSI_BUY_MAX
  /\ (~USE_VWAP_FILTER \/ (bar.vwap > 0 /\ bar.close > bar.vwap))

\* generate_signal: the confirmation stack of the long entry
LongConfirmed(st, bar) ==
  /\ bar.close > st.or_high
  /\ bar.ema[1] > bar.ema[2]
  /\ RSI_BUY_MIN <= bar.rsi /\ bar.rsi <= RSI_BUY_MAX
  /\ bar.volume * 10 >= VolMa * VOLUME_MULTIPLIER_X10
  /\ (~USE_VWAP_FILTER \/ (bar.vwap > 0 /\ bar.close > bar.vwap))

\* generate_signal: the confirmation stack of the short entry
ShortConfirmed(st, bar) ==
  /\ bar.close < st.or_low
  /\ bar.ema[1] < bar.ema[2]
  /\ RSI_SELL_MIN <= bar.rsi /\ bar.rsi <= RSI_SELL_MAX
  /\ bar.volume * 10 >= VolMa * VOLUME_MULTIPLIER_X10
  /\ (~USE_VWAP_FILTER \/ (bar.vwap > 0 /\ bar.close < bar.vwap))

\* a faulty entry: the sized quantity is not compared with 1
EnterPositionUnsized(bar, available_capital, side) ==
  LET st == calc_stop_target(bar.close, bar.atr, side)
      qty == calc_quantity(bar.close, available_capital, bar.atr)
  IN  [signal |-> Signal(side, bar.close, qty, st.stop_loss, st.target, side),
       position |-> Position(bar.close, qty, st.stop_loss, st.target, side,
                             st.initial_risk, bar.close)]

\* generate_signal: size the entry, create the Position and emit BUY/SHORT, or
\* HOLD when the sized quantity is below 1
EnterPosition(bar, available_capital, side) ==
  LET st == calc_stop_target(bar.close, bar.atr, side)
      qty == calc_quantity(bar.close, available_capital, bar.atr)
  IN  IF qty < 1
      THEN [signal |-> RefusedSignal(bar.close, side), position |-> NoPosition]
      ELSE [signal |-> Signal(side, bar.close, qty, st.stop_loss, st.target, side),
            position |-> Position(bar.close, qty, st.stop_loss, st.target, side,
                                  st.initial_risk, bar.close)]

\* a faulty generate_signal: a long entry refused for its quantity does not return,
\* and the short check follows
generate_signal_refusal_goes_on(st, bar, available_capital) ==
  IF bar.len = 0 \/ bar.len < EMA_SLOW + 5
  THEN [signal |-> HoldSignal, position |-> st.position]
  ELSE IF st.position # NoPosition THEN ManagePosition(st.position, bar)
  ELSE IF ~st.or_established THEN [signal |-> HoldSignal, position |-> st.position]
  ELSE IF LongConfirmed(st, bar)
          /\ calc_quantity(bar.close, available_capital, bar.atr) >= 1
  THEN EnterPosition(bar, available_capital, "BUY")
  ELSE IF ShortConfirmed(st, bar) THEN EnterPosition(bar, available_capital, "SHORT")
  ELSE [signal |-> HoldSignal, position |-> st.position]

\* a faulty generate_signal: the length of the frame is not looked at
generate_signal_any_length(st, bar, available_capital) ==
  IF st.position # NoPosition THEN ManagePosition(st.position, bar)
  ELSE IF ~st.or_established THEN [signal |-> HoldSignal, position |-> st.position]
  ELSE IF LongConfirmed(st, bar) THEN EnterPosition(bar, available_capital, "BUY")
  ELSE IF ShortConfirmed(st, bar) THEN EnterPosition(bar, available_capital, "SHORT")
  ELSE [signal |-> HoldSignal, position |-> st.position]

\* ORBStrategy.generate_signal(df, available_capital): the Signal returned and the
\* engine's Position afterwards
generate_signal(st, bar, available_capital) ==
  IF bar.len = 0 \/ bar.len < EMA_SLOW + 5
  THEN [signal |-> HoldSignal, position |-> st.position]
  ELSE IF st.position # NoPosition THEN ManagePosition(st.position, bar)
  ELSE IF ~st.or_established THEN [signal |-> HoldSignal, position |-> st.position]
  ELSE IF LongConfirmed(st, bar) THEN EnterPosition(bar, available_capital, "BUY")
  ELSE IF ShortConfirmed(st, bar) THEN EnterPosition(bar, available_capital, "SHORT")
  ELSE [signal |-> HoldSignal, position |-> st.position]

\* force_exit_signal returned None
NoSignal == Signal("NONE", 0, 0, 0, 0, "NONE")

\* ORBStrategy.force_exit_signal(ltp): the Signal returned and the engine's
\* Position afterwards
force_exit_signal(st, ltp) ==
  IF st.position # NoPosition
  THEN [signal |-> ExitSignal("force-exit", ltp, st.position), position |-> NoPosition]
  ELSE [signal |-> NoSignal, position |-> st.position]

\* ------------------------------------------------------------- the state
VARIABLES
  clock,              \* _now_ist(): the last configured clock mark passed
  pc,                 \* position of main() in its session loop
  idx,                \* index into instrument_keys of the scan's for-loop
  cycle,              \* number of sleeps taken so far
  or_established,     \* main: or_established[key]
  strategies,         \* main: strategies[key], one ORBStrategy per instrument
  entry_price,        \* main: entry_price[key]
  entry_qty,          \* main: entry_qty[key]
  active_key,         \* main: the instrument holding the open position, or NoKey
  realised_pnl,       \* RiskManager.realised_pnl
  open_pnl,           \* RiskManager.open_pnl
  total_trades,       \* RiskManager.total_trades
  winning_trades,     \* RiskManager.winning_trades
  trades,             \* RiskManager.trades: the pnl of each completed trade, in order
  can_enter,          \* main: can_enter of the current cycle
  has_open_position,  \* main: has_open_position of the current cycle
  ltp,                \* main: ltp fetched by the open-P&L refresh of the current cycle
  order_event,        \* the order the last step sent through OrderManager, its outcome and fill price
  exit_all_called,    \* OrderManager.exit_all_positions() has been called this session
  gate_tripped,       \* history: max-loss, the kill switch or force-exit time was true once
  fills,              \* history: the number of entry orders whose fill was confirmed
  fault,              \* the failure the last step met: of a notification, or an
                      \* exception raised by the data calls of the scan; or "none"
  call                \* the last direct call of a strategy or order function, with its
                      \* arguments and what it returned; NoCall throughout a session

vars ==
  <<clock, pc, idx, cycle, or_established, strategies, entry_price, entry_qty,
    active_key, realised_pnl, open_pnl, total_trades, winning_trades, trades,
    can_enter, has_open_position, ltp, order_event, exit_all_called, gate_tripped,
    fills, fault, call>>

\* ---------------------------------------------------------- main.py: time
\* _past_time(time_str)
PastTime(mark) == clock >= mark

\* ------------------------------------------------------- risk_manager.py
\* RiskManager.total_pnl, in paise, of a RiskManager whose realised and open P&L
\* are given in hundredths of a paisa: round(realised_pnl + open_pnl, 2)
TotalPnl(realised_x100, open_x100) == RoundDiv(realised_x100 + open_x100, 100)

\* RiskManager.is_profit_target_hit of such a RiskManager
IsProfitTargetHit(realised_x100, open_x100) ==
  realised_x100 >= DAILY_PROFIT_TARGET * 100

\* a faulty is_max_loss_hit: the open P&L is not counted
IsMaxLossHitRealisedOnly(realised_x100, open_x100) ==
  TotalPnl(realised_x100, 0) <= -DAILY_MAX_LOSS

\* RiskManager.is_max_loss_hit of such a RiskManager
IsMaxLossHit(realised_x100, open_x100) ==
  TotalPnl(realised_x100, open_x100) <= -DAILY_MAX_LOSS

\* RiskManager.total_pnl of the session's RiskManager
total_pnl == TotalPnl(realised_pnl * 100, open_pnl * 100)

\* RiskManager.is_profit_target_hit of the session's RiskManager
is_profit_target_hit == realised_pnl >= DAILY_PROFIT_TARGET

\* RiskManager.is_max_loss_hit of the session's RiskManager
is_max_loss_hit == IsMaxLossHit(realised_pnl * 100, open_pnl * 100)

\* a faulty can_trade: the profit target does not stop trading
CanTradeIgnoringProfitTarget == ~is_max_loss_hit

\* RiskManager.can_trade
can_trade == ~is_profit_target_hit /\ ~is_max_loss_hit

\* a faulty P&L: the short side is not mirrored
TradePnlAsLong(side, entry, exit, quantity) == (exit - entry) * quantity

\* record_trade: the P&L of the trade; the side of a long trade is "BUY"
TradePnl(side, entry, exit, quantity) ==
  IF side = "BUY" THEN (exit - entry) * quantity ELSE (entry - exit) * quantity

\* a faulty record_trade: a trade that made nothing is not logged
RecordTradeUnlogged(unit, side, entry, exit, quantity) ==
  LET pnl == TradePnl(side, entry, exit, quantity)
  IN  /\ realised_pnl' = realised_pnl + pnl
      /\ total_trades' = total_trades + 1
      /\ winning_trades' = IF pnl > 0 THEN winning_trades + 1 ELSE winning_trades
      /\ trades' = IF pnl = 0 THEN trades ELSE Append(trades, RoundDiv(pnl, unit))

\* RiskManager.record_trade(instrument_key, side, entry_price, exit_price, quantity,
\* reason), with prices and realised P&L in 1/unit of a paisa: the log takes
\* round(pnl, 2), in paise
RecordTrade(unit, side, entry, exit, quantity) ==
  LET pnl == TradePnl(side, entry, exit, quantity)
  IN  /\ realised_pnl' = realised_pnl + pnl
      /\ total_trades' = total_trades + 1
      /\ winning_trades' = IF pnl > 0 THEN winning_trades + 1 ELSE winning_trades
      /\ trades' = Append(trades, RoundDiv(pnl, unit))

\* record_trade of the session, whose prices are whole paise
record_trade(side, entry, exit, quantity) == RecordTrade(1, side, entry, exit, quantity)

\* no trade is booked
NoTrade == UNCHANGED <<realised_pnl, total_trades, winning_trades, trades>>

\* the number of losing trades at the end of the trade log
RECURSIVE LossRun(_)
LossRun(log) ==
  IF log = <<>> THEN 0
  ELSE IF log[Len(log)] < 0 THEN 1 + LossRun(SubSeq(log, 1, Len(log) - 1))
  ELSE 0

\* the limits the docstrings of main.py and settings.py promise
MaxTradesHit == total_trades >= MAX_TRADES_PER_DAY
ConsecutiveLossHit == LossRun(trades) >= MAX_CONSECUTIVE_LOSSES

\* ------------------------------------------------------ order_manager.py
NoOrder == [kind |-> "NONE", result |-> "NONE", fill |-> 0]

\* what becomes of an order with reference price ref: place_order fails, or
\* wait_for_fill returns None, or it returns the average fill price
OrderOutcomes(env, ref) ==
  {[result |-> "FAILED", fill |-> 0], [result |-> "UNFILLED", fill |-> 0]}
    \cup {[result |-> "FILLED", fill |-> ref + s] : s \in env.slippages}

\* OrderManager.place_order(signal, side) followed by wait_for_fill(order_id)
place_order(env, signal) ==
  IF signal.quantity < 1 THEN {[result |-> "FAILED", fill |-> 0]}
  ELSE OrderOutcomes(env, signal.ltp)

\* a field the order detail does not have, and a field that is null
NoField == -1
NullField == -2

\* what get_order_status may return: the order detail, with or without its
\* fields; {} when the request failed; None when the "data" of the body is null
OrderReplies ==
  {[data |-> "dict", status |-> "complete", average_price |-> a] :
     a \in {10400, NoField, NullField}}
    \cup {[data |-> "dict", status |-> st, average_price |-> NoField] :
            st \in {"cancelled", "rejected", "open", "none"}}
    \cup {[data |-> "null", status |-> "none", average_price |-> NoField]}

\* the reply leaves the order pending: wait_for_fill polls again
PendingReply(reply) ==
  reply.data = "dict" /\ reply.status \notin {"complete", "cancelled", "rejected"}

\* wait_for_fill has not returned / returns None / returns a price / raises
FillRunning == [kind |-> "running", price |-> 0]
FillNone == [kind |-> "none", price |-> 0]
FillPrice(price) == [kind |-> "price", price |-> price]
FillRaised == [kind |-> "raised", price |-> 0]

\* range(max_wait) in place of range(max_wait // 2)
PollLimitSeconds(max_wait) == max_wait
\* the number of passes of the loop of wait_for_fill: range(max_wait // 2)
PollLimit(max_wait) == max_wait \div 2

\* what one pass of the loop of wait_for_fill makes of the reply
FillOutcome(reply) ==
  IF reply.data = "null" THEN FillRaised
  ELSE IF reply.status = "complete"
  THEN IF reply.average_price = NullField THEN FillRaised
       ELSE IF reply.average_price = NoField THEN FillPrice(0)
       ELSE FillPrice(reply.average_price)
  ELSE IF reply.status \in {"cancelled", "rejected"} THEN FillNone
  ELSE FillRunning

\* -------------------------------------------------------------- history
GateTrippedNow == is_max_loss_hit \/ ConsecutiveLossHit \/ PastTime(FORCE_EXIT_TIME)
NoCall == [fn |-> "none"]
\* the step filled an entry (BUY/SHORT) order
EntryFilled == order_event.kind = "ENTRY" /\ order_event.result = "FILLED"
\* a step of the session: the history is kept, and no function is called directly
Observe ==
  /\ gate_tripped' = (gate_tripped \/ GateTrippedNow')
  /\ fills' = IF EntryFilled' THEN fills + 1 ELSE fills
  /\ UNCHANGED call

\* the step met no failure
NoFault == fault' = "none"

\* an exception leaves main(): the process ends where it is
Crash == pc' = "crashed" /\ idx' = idx

\* ------------------------------------------------------ main.py: the loop
\* the engine of the active instrument holds a Position
LedgerOpen == active_key # NoKey /\ strategies[active_key].position # NoPosition

\* market_data.get_ltp: a price, or NoLtp
LtpValues(env) == env.ltps \cup {NoLtp}

Init ==
  /\ clock = 0
  /\ pc = "top"
  /\ idx = 1
  /\ cycle = 0
  /\ or_established = [k \in Keys |-> FALSE]
  /\ strategies = [k \in Keys |-> NewStrategy]
  /\ entry_price = [k \in Keys |-> 0]
  /\ entry_qty = [k \in Keys |-> 0]
  /\ active_key = NoKey
  /\ realised_pnl = 0
  /\ open_pnl = 0
  /\ total_trades = 0
  /\ winning_trades = 0
  /\ trades = <<>>
  /\ can_enter = FALSE
  /\ has_open_position = FALSE
  /\ ltp = NoLtp
  /\ order_event = NoOrder
  /\ exit_all_called = FALSE
  /\ gate_tripped = FALSE
  /\ fills = 0
  /\ fault = "none"
  /\ call = NoCall

\* the clock passes the next configured mark
Tick ==
  /\ pc \notin {"done", "crashed"}
  /\ clock < FORCE_EXIT_TIME
  /\ clock' = clock + 1
  /\ order_event' = NoOrder
  /\ UNCHANGED <<pc, idx, cycle, or_established, strategies, entry_price, entry_qty,
                 active_key, realised_pnl, open_pnl, total_trades, winning_trades,
                 trades, can_enter, has_open_position, ltp, exit_all_called>>
  /\ NoFault
  /\ Observe

\* "Book any remaining open position" at the last traded price, or at the entry
\* price when no price is available
BookOpenPosition(env) ==
  \E l \in LtpValues(env) :
    record_trade(strategies[active_key].position.side, entry_price[active_key],
                 IF l # NoLtp THEN l ELSE entry_price[active_key],
                 entry_qty[active_key])

\* top of the while-loop: the force-exit check and the daily risk limits; s1 and
\* s2 are what becomes of the first and the second notification of the pass
CycleTop(env) ==
  /\ pc = "top"
  /\ \E s1, s2 \in env.sink :
       IF PastTime(FORCE_EXIT_TIME)
       THEN /\ exit_all_called' = TRUE
            /\ IF LedgerOpen
               THEN /\ BookOpenPosition(env)
                    /\ fault' = SinkFault(s1, "sent")
                    /\ pc' = IF SinkRaises(s1) THEN "crashed" ELSE "done"
               ELSE NoTrade /\ NoFault /\ pc' = "done"
            /\ UNCHANGED <<strategies, active_key>>
       ELSE IF ~can_trade
       THEN IF is_max_loss_hit
            THEN /\ exit_all_called' = TRUE
                 /\ IF LedgerOpen
                    THEN /\ BookOpenPosition(env)
                         \* notify_trade_exit comes before the Position is cleared
                         /\ IF SinkRaises(s1)
                            THEN /\ UNCHANGED <<strategies, active_key>>
                                 /\ fault' = s1
                                 /\ pc' = "crashed"
                            ELSE /\ strategies' =
                                      [strategies EXCEPT ![active_key].position = NoPosition]
                                 /\ active_key' = NoKey
                                 /\ fault' = SinkFault(s1, s2)
                                 /\ pc' = IF SinkRaises(s2) THEN "crashed" ELSE "done"
                    ELSE /\ NoTrade
                         /\ UNCHANGED <<strategies, active_key>>
                         /\ fault' = SinkFault(s1, "sent")
                         /\ pc' = IF SinkRaises(s1) THEN "crashed" ELSE "done"
            \* otherwise the profit target is hit: the checks that follow it in the
            \* source are never reached, can_trade being false only on these two
            ELSE /\ fault' = SinkFault(s1, "sent")
                 /\ pc' = IF SinkRaises(s1) THEN "crashed" ELSE "done"
                 /\ NoTrade
                 /\ UNCHANGED <<strategies, active_key, exit_all_called>>
       ELSE /\ pc' = "orb"
            /\ NoFault
            /\ NoTrade
            /\ UNCHANGED <<strategies, active_key, exit_all_called>>
  /\ order_event' = NoOrder
  /\ UNCHANGED <<clock, idx, cycle, or_established, entry_price, entry_qty, open_pnl,
                 can_enter, has_open_position, ltp>>
  /\ Observe

\* get_candles / get_opening_range gave nothing for the instrument
NoData == [or_high |-> 0, or_low |-> 0]

\* ORBStrategy.set_opening_range
set_opening_range(st, or_high, or_low) ==
  [st EXCEPT !.or_high = or_high, !.or_low = or_low, !.or_established = TRUE]

\* a faulty establishment: the range is set whenever the data is there
EstablishedRangeAlways(st, established, got) ==
  IF got # NoData THEN set_opening_range(st, got.or_high, got.or_low) ELSE st

\* the engine after "if not or_established[key]: ... set_opening_range(...)", got
\* being what get_candles and get_opening_range gave
EstablishedRange(st, established, got) ==
  IF ~established /\ got # NoData
  THEN set_opening_range(st, got.or_high, got.or_low)
  ELSE st

\* "Establish Opening Range for each stock"
EstablishOR(env) ==
  /\ pc = "orb"
  /\ IF PastTime(ORB_END_TIME)
     THEN \E got \in [Keys -> env.ranges \cup {NoData}] :
            /\ strategies' =
                 [k \in Keys |-> EstablishedRange(strategies[k], or_established[k], got[k])]
            /\ or_established' =
                 [k \in Keys |-> or_established[k] \/ got[k] # NoData]
     ELSE UNCHANGED <<strategies, or_established>>
  /\ pc' = "refresh"
  /\ order_event' = NoOrder
  /\ UNCHANGED <<clock, idx, cycle, entry_price, entry_qty, active_key, realised_pnl,
                 open_pnl, total_trades, winning_trades, trades, can_enter,
                 has_open_position, ltp, exit_all_called>>
  /\ NoFault
  /\ Observe

\* "Update unrealised P&L for active position"
RefreshOpenPnl(env) ==
  /\ pc = "refresh"
  /\ IF LedgerOpen
     THEN \E l \in LtpValues(env) :
            /\ ltp' = l
            /\ IF l # NoLtp
               THEN /\ open_pnl' = unrealised_pnl(strategies[active_key].position, l)
                    /\ pc' = "livesl"
               ELSE /\ UNCHANGED open_pnl
                    /\ pc' = "gate"
     ELSE /\ ltp' = NoLtp
          /\ UNCHANGED open_pnl
          /\ pc' = "gate"
  /\ order_event' = NoOrder
  /\ UNCHANGED <<clock, idx, cycle, or_established, strategies, entry_price, entry_qty,
                 active_key, realised_pnl, total_trades, winning_trades, trades,
                 can_enter, has_open_position, exit_all_called>>
  /\ NoFault
  /\ Observe

\* a closing side that repeats the side of the Position
CloseSideUnmirrored(side) == IF side = "BUY" THEN "BUY" ELSE "SELL"

\* close_side = "SELL" if signal.side == "BUY" else "BUY"
CloseSide(side) == IF side = "BUY" THEN "SELL" ELSE "BUY"

\* what place_order sends to the broker for a signal on key
OrderPayload(key, signal, transaction_type) ==
  [instrument_token |-> key, quantity |-> signal.quantity,
   transaction_type |-> transaction_type]

\* the closing order the loop submits for an EXIT signal on key
ExitOrder(key, signal) == OrderPayload(key, signal, CloseSide(signal.side))

\* the EXIT signal the live stop-loss check builds from the Position
LiveExitSignal(p, l) == Signal("EXIT", l, p.quantity, 0, 0, p.side)

\* the live stop-loss test on the last traded price
LiveStopHit(p, l) ==
  \/ p.side = "BUY" /\ l <= p.stop_loss
  \/ p.side = "SHORT" /\ l >= p.stop_loss

\* "Real-time stop-loss check using live LTP"; ltp is not read again this cycle
LiveStopLoss(env) ==
  /\ pc = "livesl"
  /\ LET p == strategies[active_key].position
         cleared ==
           /\ strategies' = [strategies EXCEPT ![active_key].position = NoPosition]
           /\ entry_price' = [entry_price EXCEPT ![active_key] = 0]
           /\ entry_qty' = [entry_qty EXCEPT ![active_key] = 0]
           /\ active_key' = NoKey
           /\ pc' = IF ~can_trade' THEN "top" ELSE "gate"
     IN  IF LiveStopHit(p, ltp)
         THEN \E o \in place_order(env, LiveExitSignal(p, ltp)),
                 s1 \in env.sink :
                /\ order_event' = [kind |-> "EXIT", result |-> o.result, fill |-> o.fill]
                /\ open_pnl' = 0
                /\ IF o.result # "FAILED"
                   THEN /\ record_trade(p.side, entry_price[active_key],
                                        IF o.result = "FILLED" THEN o.fill ELSE ltp,
                                        entry_qty[active_key])
                        /\ UNCHANGED exit_all_called
                        /\ fault' = SinkFault(s1, "sent")
                        \* notify_trade_exit comes before the Position is cleared
                        /\ IF SinkRaises(s1)
                           THEN /\ pc' = "crashed"
                                /\ UNCHANGED <<strategies, entry_price, entry_qty,
                                               active_key>>
                           ELSE cleared
                   ELSE /\ exit_all_called' = TRUE
                        /\ record_trade(p.side, entry_price[active_key], ltp,
                                        entry_qty[active_key])
                        /\ NoFault
                        /\ cleared
         ELSE /\ order_event' = NoOrder
              /\ pc' = "gate"
              /\ NoTrade
              /\ NoFault
              /\ UNCHANGED <<open_pnl, strategies, entry_price, entry_qty, active_key,
                             exit_all_called>>
  /\ ltp' = NoLtp
  /\ UNCHANGED <<clock, idx, cycle, or_established, can_enter, has_open_position>>
  /\ Observe

\* a faulty has_open_position: never sees the open position
HasOpenPositionNever == FALSE

\* has_open_position = active_key is not None and strategies[active_key].position is not None
HasOpenPosition == LedgerOpen

\* in_mid_day_pause
InMidDayPause == PastTime(MID_DAY_PAUSE_START) /\ ~PastTime(MID_DAY_PAUSE_END)

\* can_enter
CanEnter == ~PastTime(TRADING_STOP_TIME) /\ ~InMidDayPause /\ can_trade

\* "No new entries after TRADING_STOP_TIME or during mid-day pause": the two flags
\* evaluated once per cycle
EntryGate ==
  /\ pc = "gate"
  /\ can_enter' = CanEnter
  /\ has_open_position' = HasOpenPosition
  /\ idx' = 1
  /\ pc' = "scan"
  /\ order_event' = NoOrder
  /\ UNCHANGED <<clock, cycle, or_established, strategies, entry_price, entry_qty,
                 active_key, realised_pnl, open_pnl, total_trades, winning_trades,
                 trades, ltp, exit_all_called>>
  /\ NoFault
  /\ Observe

\* ---------------------------------------------- main.py: the instrument scan
\* the for-loop moves to the next instrument, or ends after the last one
NextKey ==
  IF idx < NumKeys THEN pc' = "scan" /\ idx' = idx + 1
  ELSE pc' = "end" /\ idx' = 1

\* a faulty break: the for-loop goes on with the next instrument
BreakScanGoesOn == NextKey

\* break out of the for-loop
BreakScan == pc' = "end" /\ idx' = 1

\* available_capital handed to generate_signal
AvailableCapital ==
  IF can_enter /\ ~has_open_position THEN EFFECTIVE_CAPITAL ELSE 0

\* a rebase that moves the entry price only: stop, target, initial risk and peak
\* price stay those of the signal price
RebasedPositionEntryOnly(p, fill_price, atr, side) ==
  [p EXCEPT !.entry_price = fill_price]

\* the Position after "Recalculate ATR-based stops from actual fill price"
RebasedPosition(p, fill_price, atr, side) ==
  LET st == calc_stop_target(fill_price, atr, side)
  IN  [p EXCEPT !.entry_price = fill_price, !.stop_loss = st.stop_loss,
                !.target = st.target, !.initial_risk = st.initial_risk,
                !.peak_price = fill_price]

\* "Execute BUY" / "Execute SHORT": pos is the Position generate_signal created
ExecuteEntry(env, key, signal, atr, pos, side) ==
  \E o \in place_order(env, signal), s1 \in env.sink :
    /\ order_event' = [kind |-> "ENTRY", result |-> o.result, fill |-> o.fill]
    /\ IF o.result = "FILLED"
       THEN /\ entry_price' = [entry_price EXCEPT ![key] = o.fill]
            /\ entry_qty' = [entry_qty EXCEPT ![key] = signal.quantity]
            /\ active_key' = key
            /\ strategies' = [strategies EXCEPT
                 ![key].position = RebasedPosition(pos, o.fill, atr, side)]
            /\ fault' = SinkFault(s1, "sent")
            /\ IF SinkRaises(s1) THEN Crash ELSE BreakScan
       ELSE /\ strategies' = [strategies EXCEPT ![key].position = NoPosition]
            /\ UNCHANGED <<entry_price, entry_qty, active_key>>
            /\ NoFault
            /\ NextKey
    /\ NoTrade
    /\ UNCHANGED <<open_pnl, exit_all_called>>

\* the Position rebuilt from the EXIT signal when its order was not filled
RestoredPosition(key, signal) ==
  Position(entry_price[key], entry_qty[key], signal.stop_loss, signal.target,
           signal.side, 0, 0)

\* "Execute EXIT (stop-loss / target / EMA reversal)": generate_signal has
\* already cleared the engine's Position
ExecuteExit(env, key, signal) ==
  \E o \in place_order(env, signal), s1, s2 \in env.sink :
    /\ order_event' = [kind |-> "EXIT", result |-> o.result, fill |-> o.fill]
    /\ IF o.result = "FAILED"
       THEN /\ strategies' = [strategies EXCEPT ![key].position = NoPosition]
            /\ NoTrade
            /\ NoFault
            /\ UNCHANGED <<entry_price, entry_qty, active_key, open_pnl, exit_all_called>>
            /\ NextKey
       ELSE IF o.result = "UNFILLED"
       THEN /\ strategies' = [strategies EXCEPT
                 ![key].position = RestoredPosition(key, signal)]
            /\ NoTrade
            /\ NoFault
            /\ UNCHANGED <<entry_price, entry_qty, active_key, open_pnl, exit_all_called>>
            /\ NextKey
       ELSE /\ strategies' = [strategies EXCEPT ![key].position = NoPosition]
            /\ record_trade(signal.side, entry_price[key], o.fill, signal.quantity)
            /\ open_pnl' = 0
            \* notify_trade_exit comes before the entry details are reset
            /\ IF SinkRaises(s1)
               THEN /\ UNCHANGED <<entry_price, entry_qty, active_key, exit_all_called>>
                    /\ fault' = s1
                    /\ Crash
               ELSE /\ entry_price' = [entry_price EXCEPT ![key] = 0]
                    /\ entry_qty' = [entry_qty EXCEPT ![key] = 0]
                    /\ active_key' = NoKey
                    /\ IF is_profit_target_hit'
                       THEN /\ UNCHANGED exit_all_called
                            /\ fault' = SinkFault(s1, s2)
                            /\ IF SinkRaises(s2) THEN Crash ELSE BreakScan
                       ELSE IF is_max_loss_hit'
                       THEN /\ exit_all_called' = TRUE
                            /\ fault' = SinkFault(s1, s2)
                            /\ IF SinkRaises(s2) THEN Crash ELSE BreakScan
                       ELSE /\ UNCHANGED exit_all_called
                            /\ fault' = SinkFault(s1, "sent")
                            /\ NextKey

\* what the data calls of the scan make of the instrument: whether the frame is
\* empty, and otherwise the Signal of generate_signal, the engine's Position after
\* it and the ATR of the latest bar; or the exception get_candles or
\* add_indicators raised
ScanResults(env, key) ==
  {LET r == generate_signal(strategies[key], bar, AvailableCapital)
   IN  [empty |-> bar.len = 0, signal |-> r.signal, position |-> r.position,
        atr |-> bar.atr, fault |-> "none"] : bar \in env.bars}
  \cup {[empty |-> TRUE, signal |-> HoldSignal, position |-> strategies[key].position,
         atr |-> 0, fault |-> "none"]}
  \cup {[empty |-> TRUE, signal |-> HoldSignal, position |-> strategies[key].position,
         atr |-> 0, fault |-> f] : f \in env.faults}

\* one pass of the body of "for key in instrument_keys"
ScanInstrument(env) ==
  /\ pc = "scan"
  /\ LET key == instrument_keys[idx]
         skipped ==
           /\ order_event' = NoOrder
           /\ NoTrade
           /\ UNCHANGED <<strategies, entry_price, entry_qty, active_key, open_pnl,
                          exit_all_called>>
     IN  IF PastTime(FORCE_EXIT_TIME)
         THEN BreakScan /\ NoFault /\ skipped
         ELSE IF ~or_established[key]
         THEN NextKey /\ NoFault /\ skipped
         ELSE \E r \in ScanResults(env, key) :
                \* nothing in the loop catches the exception
                IF r.fault # "none"
                THEN Crash /\ fault' = r.fault /\ skipped
                ELSE IF r.empty
                THEN NextKey /\ NoFault /\ skipped
                ELSE IF r.signal.action = "BUY" /\ can_enter /\ ~has_open_position
                        /\ r.signal.quantity > 0
                THEN ExecuteEntry(env, key, r.signal, r.atr, r.position, "BUY")
                ELSE IF r.signal.action = "SHORT" /\ can_enter /\ ~has_open_position
                        /\ r.signal.quantity > 0
                THEN ExecuteEntry(env, key, r.signal, r.atr, r.position, "SHORT")
                ELSE IF r.signal.action = "EXIT" /\ key = active_key
                THEN ExecuteExit(env, key, r.signal)
                ELSE /\ strategies' = [strategies EXCEPT ![key].position = r.position]
                     /\ NextKey
                     /\ NoFault
                     /\ order_event' = NoOrder
                     /\ NoTrade
                     /\ UNCHANGED <<entry_price, entry_qty, active_key, open_pnl,
                                    exit_all_called>>
  /\ UNCHANGED <<clock, cycle, or_established, can_enter, has_open_position, ltp>>
  /\ Observe

\* "Check if we should stop before sleeping", then the sleep; the per-cycle
\* locals are dead once the cycle is over
EndOfCycle(env) ==
  /\ pc = "end"
  /\ IF PastTime(FORCE_EXIT_TIME) \/ ~can_trade
     THEN pc' = "done" /\ UNCHANGED cycle
     ELSE /\ cycle < env.cycles
          /\ cycle' = cycle + 1
          /\ pc' = "top"
  /\ can_enter' = FALSE
  /\ has_open_position' = FALSE
  /\ ltp' = NoLtp
  /\ order_event' = NoOrder
  /\ UNCHANGED <<clock, idx, or_established, strategies, entry_price, entry_qty,
                 active_key, realised_pnl, open_pnl, total_trades, winning_trades,
                 trades, exit_all_called>>
  /\ NoFault
  /\ Observe

Next ==
  \/ Tick
  \/ CycleTop(OpenMarket)
  \/ EstablishOR(OpenMarket)
  \/ RefreshOpenPnl(OpenMarket)
  \/ LiveStopLoss(OpenMarket)
  \/ EntryGate
  \/ ScanInstrument(OpenMarket)
  \/ EndOfCycle(OpenMarket)

\* a session in the open market
Spec == Init /\ [][Next]_vars

CalmNext ==
  \/ Tick
  \/ CycleTop(CalmMarket)
  \/ EstablishOR(CalmMarket)
  \/ RefreshOpenPnl(CalmMarket)
  \/ LiveStopLoss(CalmMarket)
  \/ EntryGate
  \/ ScanInstrument(CalmMarket)
  \/ EndOfCycle(CalmMarket)

\* a longer session in a calm market, where single trades stay inside the daily limits
CalmSpec == Init /\ [][CalmNext]_vars

RoughNext ==
  \/ Tick
  \/ CycleTop(RoughMarket)
  \/ EstablishOR(RoughMarket)
  \/ RefreshOpenPnl(RoughMarket)
  \/ LiveStopLoss(RoughMarket)
  \/ EntryGate
  \/ ScanInstrument(RoughMarket)
  \/ EndOfCycle(RoughMarket)

\* a session in a rough market: the data of the first candles may be revised
\* between polls
RoughSpec == Init /\ [][RoughNext]_vars

\* the session loop keeps running: it is a single thread that executes its next
\* statement whenever it has one
LiveSpec == Spec /\ WF_vars(Next)

\* ---------------------------------------------- the functions called directly
\* everything of the session but the engines and the call record
session_vars ==
  <<clock, pc, idx, cycle, or_established, entry_price, entry_qty, active_key,
    realised_pnl, open_pnl, total_trades, winning_trades, trades, can_enter,
    has_open_position, ltp, order_event, exit_all_called, gate_tripped, fills,
    fault>>

\* the settings of the fixed-percentage example: STOP_LOSS_PCT 0.005, TARGET_PCT 0.01
ExampleSettings == [Settings EXCEPT !.TARGET_PCT_X10000 = 100]

\* entry prices handed to the helpers: the closes, a fill off the close, a price
\* whose percentage stop needs rounding, and the degenerate price 0
HelperPrices == Prices \cup {0, 10030, 10390}
\* available_capital handed to the helpers and to generate_signal
Capitals == {0, 10000, EFFECTIVE_CAPITAL}
\* the signals handed to place_order
OrderSignals ==
  {Signal(a, 10400, q, 0, 0, sd) :
     a \in {"BUY", "SHORT", "EXIT"}, q \in {-1, 0, 1, 83}, sd \in {"BUY", "SHORT"}}

\* strategy.set_opening_range(or_high, or_low) on the engine of instrument 1
CallSetOpeningRange ==
  \E r \in OpeningRanges :
    /\ call = NoCall
    /\ strategies' = [strategies EXCEPT ![1] = set_opening_range(@, r.or_high, r.or_low)]
    /\ call' = [fn |-> "set_opening_range", st |-> strategies[1]]
    /\ UNCHANGED session_vars

\* strategy.generate_signal(df, available_capital) on the engine of instrument 1
CallGenerateSignal ==
  \E bar \in Bars \cup {ShortBar, EmptyBar}, capital \in Capitals :
    LET r == generate_signal(strategies[1], bar, capital)
    IN  /\ call = NoCall
        /\ strategies' = [strategies EXCEPT ![1].position = r.position]
        /\ call' = [fn |-> "generate_signal", st |-> strategies[1], bar |-> bar,
                    available_capital |-> capital, signal |-> r.signal,
                    position |-> r.position]
        /\ UNCHANGED session_vars

\* strategy.force_exit_signal(ltp) on the engine of instrument 1
CallForceExitSignal ==
  \E l \in Ltps \cup {NoLtp} :
    LET r == force_exit_signal(strategies[1], l)
    IN  /\ call = NoCall
        /\ strategies' = [strategies EXCEPT ![1].position = r.position]
        /\ call' = [fn |-> "force_exit_signal", st |-> strategies[1], ltp |-> l,
                    signal |-> r.signal, position |-> r.position]
        /\ UNCHANGED session_vars

\* _calc_stop_target(price, atr, side) under the settings cfg
CallCalcStopTarget ==
  \E cfg \in {Settings, ExampleSettings}, price \in HelperPrices, atr \in AtrValues,
     side \in {"BUY", "SHORT"} :
    /\ call = NoCall
    /\ call' = [fn |-> "calc_stop_target", cfg |-> cfg, price |-> price, atr |-> atr,
                side |-> side, result |-> StopTarget(cfg, price, atr, side)]
    /\ UNCHANGED <<strategies, session_vars>>

\* _calc_quantity(price, available_capital, atr)
CallCalcQuantity ==
  \E price \in HelperPrices, capital \in Capitals \cup {-10000}, atr \in AtrValues :
    /\ call = NoCall
    /\ call' = [fn |-> "calc_quantity", price |-> price, available_capital |-> capital,
                atr |-> atr, result |-> calc_quantity(price, capital, atr)]
    /\ UNCHANGED <<strategies, session_vars>>

\* order_manager.place_order(signal, side) followed by wait_for_fill
CallPlaceOrder ==
  \E signal \in OrderSignals :
    /\ call = NoCall
    /\ call' = [fn |-> "place_order", signal |-> signal,
                outcomes |-> place_order(OpenMarket, signal)]
    /\ UNCHANGED <<strategies, session_vars>>

\* the trades handed to record_trade: entry and exit prices, in hundredths of a
\* paisa (an average fill price may have more than two decimals: 100.0040), and
\* quantities
TradeEntries == {1000000}
TradeExits == {950000, 1000000, 1000040, 1050000}
TradeQuantities == {1, 10}
\* the unrealised P&L handed to update_open_pnl, in hundredths of a paisa
OpenPnlsX100 == {0, 83000}
\* realised and open P&L of a RiskManager, in hundredths of a paisa: around the
\* daily limits of 50 rupees, on them and a fraction of a paisa off them, as fills
\* at average prices of more than two decimals leave them
PnlsX100 ==
  {-500040, -500000, -499960, -250000, -249960, 0, 40, 250000, 499960, 500000, 500040}

\* risk_manager.record_trade(key, side, entry_price, exit_price, quantity, reason)
CallRecordTrade ==
  \E side \in {"BUY", "SHORT"}, entry \in TradeEntries, exit \in TradeExits,
     quantity \in TradeQuantities :
    /\ call = NoCall
    /\ total_trades < MaxRecorded
    /\ RecordTrade(100, side, entry, exit, quantity)
    /\ call' = [fn |-> "record_trade", side |-> side, entry_price |-> entry,
                exit_price |-> exit, quantity |-> quantity,
                before |-> [realised_pnl |-> realised_pnl, total_trades |-> total_trades,
                            winning_trades |-> winning_trades, trades |-> trades],
                result |-> TradePnl(side, entry, exit, quantity)]
    /\ UNCHANGED <<clock, pc, idx, cycle, or_established, strategies, entry_price,
                   entry_qty, active_key, open_pnl, can_enter, has_open_position, ltp,
                   order_event, exit_all_called, gate_tripped, fills, fault>>

\* risk_manager.update_open_pnl(pnl)
CallUpdateOpenPnl ==
  \E pnl \in OpenPnlsX100 :
    /\ call = NoCall
    /\ open_pnl' = pnl
    /\ call' = [fn |-> "update_open_pnl", pnl |-> pnl,
                before |-> [realised_pnl |-> realised_pnl, total_trades |-> total_trades,
                            winning_trades |-> winning_trades, trades |-> trades]]
    /\ NoTrade
    /\ UNCHANGED <<clock, pc, idx, cycle, or_established, strategies, entry_price,
                   entry_qty, active_key, can_enter, has_open_position, ltp,
                   order_event, exit_all_called, gate_tripped, fills, fault>>

\* is_profit_target_hit() of a RiskManager with the given realised and open P&L
CallIsProfitTargetHit ==
  \E realised \in PnlsX100, open \in PnlsX100 :
    /\ call = NoCall
    /\ call' = [fn |-> "is_profit_target_hit", realised_pnl_x100 |-> realised,
                open_pnl_x100 |-> open, result |-> IsProfitTargetHit(realised, open)]
    /\ UNCHANGED <<strategies, session_vars>>

\* is_max_loss_hit() of a RiskManager with the given realised and open P&L
CallIsMaxLossHit ==
  \E realised \in PnlsX100, open \in PnlsX100 :
    /\ call = NoCall
    /\ call' = [fn |-> "is_max_loss_hit", realised_pnl_x100 |-> realised,
                open_pnl_x100 |-> open, result |-> IsMaxLossHit(realised, open)]
    /\ UNCHANGED <<strategies, session_vars>>

\* the caller is done with what the call returned
CallReturn ==
  /\ call # NoCall
  /\ call' = NoCall
  /\ UNCHANGED <<strategies, session_vars>>

CallNext ==
  \/ CallSetOpeningRange
  \/ CallGenerateSignal
  \/ CallForceExitSignal
  \/ CallCalcStopTarget
  \/ CallCalcQuantity
  \/ CallPlaceOrder
  \/ CallReturn

\* the strategy and order functions called directly, in any order, on any input
CallSpec == Init /\ [][CallNext]_vars

\* order_manager.wait_for_fill(order_id, max_wait) is entered
CallWaitForFill ==
  \E max_wait \in 0..MaxWait :
    /\ call = NoCall
    /\ call' = [fn |-> "wait_for_fill", max_wait |-> max_wait, polls |-> 0,
                waited |-> 0, seen |-> <<>>, result |-> FillRunning]
    /\ UNCHANGED <<strategies, session_vars>>

\* one pass of the loop of wait_for_fill: sleep 2 seconds, get the order status
PollOrderStatus ==
  \E reply \in OrderReplies :
    /\ call.fn = "wait_for_fill"
    /\ call.result = FillRunning
    /\ call.polls < PollLimit(call.max_wait)
    /\ call' = [call EXCEPT !.polls = @ + 1,
                            !.waited = @ + 2,
                            !.seen = Append(@, reply),
                            !.result = FillOutcome(reply)]
    /\ UNCHANGED <<strategies, session_vars>>

\* the loop of wait_for_fill is exhausted: "not filled within max_wait seconds"
WaitTimedOut ==
  /\ call.fn = "wait_for_fill"
  /\ call.result = FillRunning
  /\ call.polls >= PollLimit(call.max_wait)
  /\ call' = [call EXCEPT !.result = FillNone]
  /\ UNCHANGED <<strategies, session_vars>>

\* wait_for_fill has returned or raised
FillReturn ==
  /\ call.fn = "wait_for_fill"
  /\ call.result # FillRunning
  /\ call' = NoCall
  /\ UNCHANGED <<strategies, session_vars>>

FillNext ==
  \/ CallWaitForFill
  \/ PollOrderStatus
  \/ WaitTimedOut
  \/ FillReturn

\* wait_for_fill called directly, with any wait and any replies of the broker
FillSpec == Init /\ [][FillNext]_vars

\* entry prices of the Positions handed to the position management: cheap shares,
\* whose fallback stop is within the breakeven buffer of the entry, and a dear one
TrailPrices == {1200, 2000, 2400, 10400}
\* ATR of the entry bar and of the managed bar; 0 is "no ATR available"
TrailAtrValues == {0, 4, 100}
\* the close of the managed bar, relative to the entry price
TrailOffsets == {-150, -52, -12, -10, -6, 0, 6, 10, 11, 12, 52, 150}

\* the Positions generate_signal creates on entry, one share each
TrailPositions ==
  {LET st == calc_stop_target(price, atr, side)
   IN  Position(price, 1, st.stop_loss, st.target, side, st.initial_risk, price) :
     price \in TrailPrices, atr \in TrailAtrValues, side \in {"BUY", "SHORT"}}

\* generate_signal on an engine that holds the Position p0, the EMAs and the RSI
\* of the bar with the trade
CallManagePosition ==
  \E p0 \in TrailPositions, d \in TrailOffsets, atr \in TrailAtrValues :
    LET bar == [len |-> EMA_SLOW + 5, close |-> p0.entry_price + d,
                ema |-> IF p0.side = "BUY" THEN <<50, 48>> ELSE <<48, 50>>,
                rsi |-> 50, volume |-> 100, atr |-> atr, vwap |-> 0]
        r == generate_signal([strategies[1] EXCEPT !.position = p0], bar, 0)
    IN  /\ call = NoCall
        /\ strategies' = [strategies EXCEPT ![1].position = r.position]
        /\ call' = [fn |-> "manage_position", before |-> p0, bar |-> bar,
                    maintained |-> MaintainedPosition(p0, bar),
                    signal |-> r.signal, position |-> r.position]
        /\ UNCHANGED session_vars

\* the position management returns; the engine is set up afresh
TrailReturn ==
  /\ call.fn = "manage_position"
  /\ call' = NoCall
  /\ strategies' = [strategies EXCEPT ![1].position = NoPosition]
  /\ UNCHANGED session_vars

TrailNext ==
  \/ CallManagePosition
  \/ TrailReturn

\* the position management of generate_signal called directly on fresh Positions
TrailSpec == Init /\ [][TrailNext]_vars

RiskNext ==
  \/ CallRecordTrade
  \/ CallUpdateOpenPnl
  \/ CallIsProfitTargetHit
  \/ CallIsMaxLossHit
  \/ CallReturn

\* the methods of the RiskManager called directly, in any order, on any input
RiskSpec == Init /\ [][RiskNext]_vars

\* ================================================================ properties
\* the engines that hold a Position
OpenKeys == {k \in Keys : strategies[k].position # NoPosition}

\* the step sent an entry (BUY/SHORT) order to the broker
EntrySubmitted == order_event.kind = "ENTRY"

\* C1: at every point of a session at most one instrument's engine holds a
\* Position, and while any engine holds one no BUY/SHORT entry order is sent.
C1_SinglePosition ==
  /\ [](Cardinality(OpenKeys) <= 1)
  /\ [][OpenKeys # {} => ~EntrySubmitted']_vars

\* C1 witness: a cycle with entries allowed scanned both instruments while the
\* first one held the Position, and the Position is still the only one
C1_Witness ==
  /\ pc = "end"
  /\ can_enter /\ has_open_position
  /\ ~PastTime(FORCE_EXIT_TIME)
  /\ or_established[2]
  /\ OpenKeys = {1}

\* C2: when the loop has ended with max-loss true (before force-exit time),
\* exit_all_positions has been called and no Position is left in the ledger.
C2_MaxLossFlattens ==
  (pc = "done" /\ is_max_loss_hit /\ ~PastTime(FORCE_EXIT_TIME))
    => (exit_all_called /\ ~LedgerOpen)

\* C3: when the loop has ended past force-exit time with a Position in the
\* ledger, exit_all_positions has been called.
C3_ForceExitFlattens ==
  (pc = "done" /\ PastTime(FORCE_EXIT_TIME) /\ LedgerOpen) => exit_all_called

\* C4: an exit order that fails to submit or whose fill is not confirmed leaves
\* the Position open in the ledger and books no trade.
C4_ExitNeedsConfirmedFill ==
  [][(order_event'.kind = "EXIT" /\ order_event'.result # "FILLED")
       => (LedgerOpen' /\ total_trades' = total_trades)]_vars

\* C5: while one Position stays open, once its trailing is active its stop-loss
\* never decreases for a long and never increases for a short.
C5_TrailingStopMonotone ==
  [][\A k \in Keys :
       (strategies[k].position.trailing_active /\ strategies'[k].position # NoPosition)
         => IF strategies[k].position.side = "BUY"
            THEN strategies'[k].position.stop_loss >= strategies[k].position.stop_loss
            ELSE strategies'[k].position.stop_loss <= strategies[k].position.stop_loss]_vars

\* C6: can_trade is false exactly when the profit target, the max loss, the
\* max trades per day or the consecutive-loss limit is hit.
C6_CanTradeIffNoLimitHit ==
  ~can_trade <=>
    (is_profit_target_hit \/ is_max_loss_hit \/ MaxTradesHit \/ ConsecutiveLossHit)

\* C7: once the completed trades reach MAX_TRADES_PER_DAY no entry order is sent.
C7_NoEntryAfterMaxTrades ==
  [][MaxTradesHit => ~EntrySubmitted']_vars

\* C8: once the consecutive losing trades reach MAX_CONSECUTIVE_LOSSES no entry
\* order is sent.
C8_NoEntryAfterLossRun ==
  [][ConsecutiveLossHit => ~EntrySubmitted']_vars

\* C9: once max-loss, the consecutive-loss limit or force-exit time has been true
\* at any moment of the session, no entry order is sent afterwards.
C9_RiskGateSticky ==
  [][gate_tripped => ~EntrySubmitted']_vars

\* C10: once the realised P&L has reached the daily profit target no entry order
\* is sent, and the session loop ends.
C10_ProfitTargetStops ==
  /\ [][is_profit_target_hit => ~EntrySubmitted']_vars
  /\ (is_profit_target_hit ~> pc = "done")

\* C10 witness: the loop has ended on the profit target, before force-exit time
C10_Witness ==
  /\ pc = "done"
  /\ is_profit_target_hit
  /\ ~PastTime(FORCE_EXIT_TIME)

\* C11: an entry order is sent only from a state in which can_trade is true, the
\* clock is before the entry cutoff and outside the mid-day pause, and no Position
\* is open.
C11_EntryOnlyWhenAllowed ==
  [][(order_event'.kind = "ENTRY" /\ order_event'.result # "FAILED")
       => (can_trade /\ ~PastTime(TRADING_STOP_TIME) /\ ~InMidDayPause /\ ~LedgerOpen)]_vars

\* a direct call of generate_signal on a frame long enough for the indicators
SignalCall == call.fn = "generate_signal" /\ call.bar.len >= EMA_SLOW + 5

ManageCall == SignalCall /\ call.st.position # NoPosition

\* an exit check fires on the Position p for the bar: stop-loss or target touched,
\* or the EMAs reversed with trailing not active
ExitCheckFires(p, bar) ==
  IF p.side = "BUY"
  THEN \/ bar.close <= p.stop_loss
       \/ bar.close >= p.target
       \/ ~p.trailing_active /\ bar.ema[1] < bar.ema[2] /\ bar.rsi < 40
  ELSE \/ bar.close >= p.stop_loss
       \/ bar.close <= p.target
       \/ ~p.trailing_active /\ bar.ema[1] > bar.ema[2] /\ bar.rsi > 60

\* C14 as stated: with a Position open, the exit checks are decided against the
\* stop and the trailing flag of the start of the cycle, and the trailing
\* maintenance changes the Position only when none of them fires.
C14_ChecksSeeStartOfCycle ==
  ManageCall =>
    /\ call.signal.action = "EXIT" <=> ExitCheckFires(call.st.position, call.bar)
    /\ (call.position # NoPosition /\ call.position # call.st.position)
         => ~ExitCheckFires(call.st.position, call.bar)

\* C14 amended: with a Position open, the trailing maintenance runs first whenever
\* the bar carries an ATR, the exit checks are decided against the stop and the
\* trailing flag it leaves, and the maintained Position is kept exactly when none
\* of them fires (an EXIT clears the Position).
C14_ChecksSeeMaintainedPosition ==
  ManageCall =>
    LET maintained == IF call.bar.atr > 0
                      THEN update_trailing(call.st.position, call.bar.close, call.bar.atr)
                      ELSE call.st.position
    IN  /\ call.signal.action = "EXIT" <=> ExitCheckFires(maintained, call.bar)
        /\ call.position = IF ExitCheckFires(maintained, call.bar)
                           THEN NoPosition ELSE maintained

\* C14 witness: a SHORT Position without trailing met reversed EMAs and a strong RSI
\* in the cycle that activated its trailing, and was held with the stop moved
C14_Witness ==
  /\ ManageCall
  /\ call.st.position.side = "SHORT"
  /\ ~call.st.position.trailing_active
  /\ call.bar.ema[1] > call.bar.ema[2] /\ call.bar.rsi > 60
  /\ call.signal.action = "HOLD"
  /\ call.position.trailing_active
  /\ call.position.stop_loss < call.st.position.stop_loss

\* C15: in every cycle in which a Position is open (and stays open) and the close
\* is at least initial_risk in its favour, with or without an ATR that cycle,
\* trailing is active afterwards and the stop is at or beyond entry plus (LONG) or
\* minus (SHORT) the breakeven buffer; trailing once active stays active, so the
\* jump happens once.
C15_TrailingActivatesAtOneR ==
  (ManageCall /\ call.position # NoPosition) =>
    LET before == call.st.position
        after == call.position
        close == call.bar.close
        favourable == IF before.side = "BUY"
                      THEN close >= before.entry_price + before.initial_risk
                      ELSE close <= before.entry_price - before.initial_risk
    IN  /\ favourable => after.trailing_active
        /\ favourable =>
             IF before.side = "BUY"
             THEN after.stop_loss >= before.entry_price + BREAKEVEN_BUFFER
             ELSE after.stop_loss <= before.entry_price - BREAKEVEN_BUFFER
        /\ before.trailing_active => after.trailing_active

\* C16: every Position an engine holds, at any point of the session, has its stop
\* below and its target above the entry price when LONG, and its stop above and
\* its target below the entry price when SHORT.
C16_StopTargetSides ==
  \A k \in Keys :
    LET p == strategies[k].position
    IN  p # NoPosition =>
          IF p.side = "BUY"
          THEN p.stop_loss < p.entry_price /\ p.entry_price < p.target
          ELSE p.stop_loss > p.entry_price /\ p.entry_price > p.target

\* a direct call of _calc_stop_target
StopTargetCall == call.fn = "calc_stop_target"

\* what the stop/target rule gives for the call, in ten-thousandths of a paisa:
\* ATR x multiplier when the ATR is positive, otherwise entry x percentage; the
\* stop one risk away from the entry against the side, the target one target
\* distance away with the side
RuleOfCall ==
  LET cfg == call.cfg
      risk == IF call.atr > 0 THEN call.atr * cfg.ATR_STOP_MULTIPLIER_X10 * 1000
              ELSE call.price * cfg.STOP_LOSS_PCT_X10000
      dist == IF call.atr > 0 THEN call.atr * cfg.ATR_TARGET_MULTIPLIER_X10 * 1000
              ELSE call.price * cfg.TARGET_PCT_X10000
      sign == IF call.side = "BUY" THEN 1 ELSE -1
  IN  [stop_loss |-> call.price * 10000 - sign * risk,
       target |-> call.price * 10000 + sign * dist,
       initial_risk |-> risk]

\* x paise is y ten-thousandths of a paisa rounded to the nearest paisa
NearestPaisa(x, y) ==
  LET d == x * 10000 - y
  IN  -5000 <= d /\ d <= 5000

\* C17 as stated: the calculator returns exactly stop = entry -/+ riskPerUnit,
\* target = entry +/- targetDistance and riskPerUnit, with riskPerUnit and
\* targetDistance taken from the ATR when it is positive and from the entry price
\* otherwise.
C17_StopTargetExact ==
  StopTargetCall =>
    /\ call.result.stop_loss * 10000 = RuleOfCall.stop_loss
    /\ call.result.target * 10000 = RuleOfCall.target
    /\ call.result.initial_risk * 10000 = RuleOfCall.initial_risk

\* C17 amended: the calculator returns stop, target and riskPerUnit of the rule,
\* each rounded to two decimals; entry 100, ATR 2, multipliers 1.5/2.5, LONG gives
\* stop 97, target 105, risk 3; entry 100, stopPct 0.005, targetPct 0.01, SHORT,
\* no ATR gives stop 100.5, target 99.
C17_StopTargetRounded ==
  StopTargetCall =>
    /\ NearestPaisa(call.result.stop_loss, RuleOfCall.stop_loss)
    /\ NearestPaisa(call.result.target, RuleOfCall.target)
    /\ NearestPaisa(call.result.initial_risk, RuleOfCall.initial_risk)
    /\ (call.price = 10000 /\ call.atr = 200 /\ call.side = "BUY")
         => call.result = [stop_loss |-> 9700, target |-> 10500, initial_risk |-> 300]
    /\ (call.price = 10000 /\ call.atr = 0 /\ call.side = "SHORT"
           /\ call.cfg = ExampleSettings)
         => (call.result.stop_loss = 10050 /\ call.result.target = 9900)

\* C17 witness: a percentage stop off the paisa grid: entry 100.30 without ATR,
\* LONG, stop 99.80 for a rule value of 99.7985
C17_Witness ==
  /\ StopTargetCall
  /\ call.price = 10030 /\ call.atr = 0 /\ call.side = "BUY"
  /\ call.result.stop_loss = 9980
  /\ RuleOfCall.stop_loss = 99798500

\* a direct call of _calc_quantity
QuantityCall == call.fn = "calc_quantity"

\* C18: the sized quantity is max(0, min(floor(risk budget / riskPerUnit),
\* floor(available capital / entry price))) wherever the two quotients exist; it
\* is never negative, and it is 0 whenever the available capital is 0 or the
\* riskPerUnit is 0.
C18_QuantityFormula ==
  QuantityCall =>
    LET risk_x10000 == IF call.atr > 0 THEN call.atr * ATR_STOP_MULTIPLIER_X10 * 1000
                       ELSE call.price * STOP_LOSS_PCT_X10000
        by_risk == (RISK_PER_TRADE * 10000) \div risk_x10000
        by_capital == call.available_capital \div call.price
        smaller == IF by_risk <= by_capital THEN by_risk ELSE by_capital
    IN  /\ (call.price > 0 /\ risk_x10000 > 0)
             => call.result = IF smaller >= 0 THEN smaller ELSE 0
        /\ call.result >= 0
        /\ (call.available_capital = 0 \/ risk_x10000 = 0) => call.result = 0

\* C18 witness: 83 shares sized by the risk budget (250 / 3.00) where the capital
\* would allow 120 (12500 / 104.00)
C18_Witness ==
  /\ QuantityCall
  /\ call.price = 10400 /\ call.atr = 200 /\ call.available_capital = EFFECTIVE_CAPITAL
  /\ call.result = 83

\* C19: called with available capital 0, generate_signal never emits BUY or SHORT
\* and a FLAT engine stays FLAT, no Position created; and an order whose quantity
\* is below 1 is never submitted: place_order refuses it.
C19_NoEntryWithoutCapital ==
  /\ (call.fn = "generate_signal" /\ call.available_capital = 0) =>
       /\ call.signal.action \notin {"BUY", "SHORT"}
       /\ call.st.position = NoPosition =>
            (call.position = NoPosition /\ strategies[1].position = NoPosition)
  /\ (call.fn = "place_order" /\ call.signal.quantity < 1) =>
       \A o \in call.outcomes : o.result = "FAILED"

\* C19 witness: a FLAT engine with its opening range was handed a fully confirmed
\* long breakout and capital 0, and held
C19_Witness ==
  /\ SignalCall
  /\ call.available_capital = 0
  /\ call.st.position = NoPosition
  /\ call.st.or_established
  /\ call.bar.close > call.st.or_high
  /\ call.bar.ema[1] > call.bar.ema[2]
  /\ call.bar.rsi = 65 /\ call.bar.volume = 150 /\ call.bar.vwap = 10150
  /\ call.signal.action = "HOLD"
  /\ strategies[1].position = NoPosition

\* C20: after an entry order that failed to submit or whose fill was not
\* confirmed, the engine of that instrument is FLAT, no instrument is marked as
\* holding the active position, the recorded entry prices and quantities are
\* unchanged and no trade is recorded.
C20_FailedEntryLeavesNoTrace ==
  [][(order_event'.kind = "ENTRY" /\ order_event'.result # "FILLED")
       => /\ strategies'[instrument_keys[idx]].position = NoPosition
          /\ active_key' = NoKey
          /\ entry_price' = entry_price /\ entry_qty' = entry_qty
          /\ trades' = trades /\ total_trades' = total_trades
          /\ realised_pnl' = realised_pnl]_vars

\* C21: handed a frame that is empty or shorter than the indicator warm-up length,
\* generate_signal returns HOLD and leaves the engine's Position and its opening
\* range as they were, whatever the engine holds.
C21_ShortFrameHolds ==
  (call.fn = "generate_signal" /\ call.bar.len < EMA_SLOW + 5) =>
    /\ call.signal.action = "HOLD"
    /\ call.signal.quantity = 0
    /\ call.position = call.st.position
    /\ strategies[1] = call.st

\* C21 witness: an engine holding a LONG Position was handed a frame one bar short
\* whose close is at or below the stop, and held with the Position untouched
C21_Witness ==
  /\ call.fn = "generate_signal"
  /\ call.bar.len = EMA_SLOW + 4
  /\ call.st.position.side = "BUY"
  /\ call.bar.close <= call.st.position.stop_loss
  /\ call.signal.action = "HOLD"
  /\ strategies[1].position = call.st.position

\* C22: for each instrument the opening range is established at most once per
\* session: the established flag, once true, stays true, and from then on the
\* range's high and low are never changed by any later cycle; the loop's flag and
\* the engine's flag go together.
C22_RangeEstablishedOnce ==
  /\ [](\A k \in Keys : or_established[k] <=> strategies[k].or_established)
  /\ [][\A k \in Keys :
          strategies[k].or_established =>
            /\ strategies'[k].or_established /\ or_established'[k]
            /\ strategies'[k].or_high = strategies[k].or_high
            /\ strategies'[k].or_low = strategies[k].or_low]_vars

\* C22 witness: a later cycle established the second instrument on revised data
\* while the first instrument kept the range of the earlier cycle
C22_Witness ==
  /\ pc = "refresh"
  /\ cycle >= 1
  /\ strategies[1].or_established /\ strategies[1].or_high = 10200
  /\ strategies[2].or_established /\ strategies[2].or_high = 10300

\* C23: record_trade books pnl = (exit - entry) x quantity for a long trade and
\* (entry - exit) x quantity for a short trade, returns it, adds it to the realised
\* P&L and increases the number of completed trades by exactly one; a long trade
\* of 10 from 100 to 105 books 50, and a short trade of 10 from 100 to 95 books 50.
C23_RecordTradeBooks ==
  call.fn = "record_trade" =>
    LET pnl == IF call.side = "BUY"
               THEN (call.exit_price - call.entry_price) * call.quantity
               ELSE (call.entry_price - call.exit_price) * call.quantity
    IN  /\ call.result = pnl
        /\ realised_pnl = call.before.realised_pnl + pnl
        /\ total_trades = call.before.total_trades + 1
        /\ Len(trades) = Len(call.before.trades) + 1
        /\ (call.side = "BUY" /\ call.entry_price = 1000000
              /\ call.exit_price = 1050000 /\ call.quantity = 10) => pnl = 50 * 10000
        /\ (call.side = "SHORT" /\ call.entry_price = 1000000
              /\ call.exit_price = 950000 /\ call.quantity = 10) => pnl = 50 * 10000

\* C23 witness: the second trade booked, a short of 10 from 100 to 95, on a
\* RiskManager whose first trade lost
C23_Witness ==
  /\ call.fn = "record_trade"
  /\ call.side = "SHORT" /\ call.entry_price = 1000000 /\ call.exit_price = 950000
  /\ call.quantity = 10
  /\ call.before.total_trades = 1 /\ call.before.realised_pnl < 0
  /\ call.result = 50 * 10000
  /\ total_trades = 2
  /\ realised_pnl = call.before.realised_pnl + 50 * 10000

\* C24 as stated: is_profit_target_hit is true exactly when the realised P&L >=
\* the daily profit target, the open P&L ignored, and is_max_loss_hit is true
\* exactly when realised P&L + open P&L <= -daily max loss.
C24_GuardsExact ==
  /\ call.fn = "is_profit_target_hit" =>
       (call.result <=> call.realised_pnl_x100 >= DAILY_PROFIT_TARGET * 100)
  /\ call.fn = "is_max_loss_hit" =>
       (call.result <=>
          call.realised_pnl_x100 + call.open_pnl_x100 <= -DAILY_MAX_LOSS * 100)

\* C24 amended: is_profit_target_hit is true exactly when the realised P&L >= the
\* daily profit target, the open P&L ignored, and is_max_loss_hit is true exactly
\* when realised P&L + open P&L, rounded to two decimals, <= -daily max loss.
C24_GuardsRounded ==
  /\ call.fn = "is_profit_target_hit" =>
       (call.result <=> call.realised_pnl_x100 >= DAILY_PROFIT_TARGET * 100)
  /\ call.fn = "is_max_loss_hit" =>
       \* how far the sum is above the limit, in hundredths of a paisa: less than
       \* half a paisa rounds onto the limit or below it (no sum is a half paisa)
       LET above == call.realised_pnl_x100 + call.open_pnl_x100 + DAILY_MAX_LOSS * 100
       IN  /\ above % 100 # 50
           /\ call.result <=> above < 50

\* C24 witness: realised -25.00 and open -24.9996 make -49.9996, which is -50.00
\* to two decimals: max loss is hit
C24_Witness ==
  /\ call.fn = "is_max_loss_hit"
  /\ call.realised_pnl_x100 = -250000 /\ call.open_pnl_x100 = -249960
  /\ call.result

\* the force-exit entry point, called with a last traded price in any engine
\* state, leaves the engine FLAT: with a Position it emits EXIT carrying the
\* Position's quantity and side at that price, without one it emits nothing and
\* changes nothing
ForceExitCallFlattens ==
  call.fn = "force_exit_signal" =>
    /\ call.position = NoPosition
    /\ strategies[1].position = NoPosition
    /\ IF call.st.position # NoPosition
       THEN /\ call.signal.action = "EXIT"
            /\ call.signal.quantity = call.st.position.quantity
            /\ call.signal.side = call.st.position.side
            /\ call.signal.ltp = call.ltp
       ELSE /\ call.signal = NoSignal
            /\ strategies[1] = call.st

\* a direct call of the force-exit entry point closed a SHORT Position
ForceExitCallClosed ==
  /\ call.fn = "force_exit_signal"
  /\ call.st.position.side = "SHORT"
  /\ call.signal.action = "EXIT"
  /\ strategies[1].position = NoPosition

\* C25: the force-exit entry point leaves the engine FLAT, emitting EXIT with the
\* Position's quantity and side at the given price when there is a Position and
\* nothing otherwise; and the end-of-session flatten at force-exit time closes the
\* ledger's Position through it, so that no Position is left in the ledger.
C25_ForceExitLeavesFlat ==
  /\ []ForceExitCallFlattens
  /\ [][(pc = "top" /\ PastTime(FORCE_EXIT_TIME) /\ pc' = "done") => ~LedgerOpen']_vars

\* C26: within one poll cycle the instruments are evaluated in the ranked order,
\* from the first on, one after the other; a step that fills an entry ends the
\* scan of that cycle; and once the scan has ended no instrument is evaluated and
\* no order is sent before the next cycle, so at most one entry is filled per cycle.
C26_ScanStopsAtEntry ==
  /\ [][(pc # "scan" /\ pc' = "scan") => idx' = 1]_vars
  /\ [][(pc = "scan" /\ pc' = "scan" /\ idx' # idx) => idx' = idx + 1]_vars
  /\ [][EntryFilled' => (pc = "scan" /\ pc' = "end")]_vars
  /\ [][pc = "end" => /\ order_event' = NoOrder
                       /\ strategies' = strategies
                       /\ pc' \in {"end", "top", "done"}]_vars

\* C26 witness: the entry of the first instrument was filled and the scan ended
\* with the second instrument, its opening range established, not evaluated
C26_Witness ==
  /\ pc = "end"
  /\ EntryFilled
  /\ active_key = instrument_keys[1]
  /\ or_established[instrument_keys[2]]
  /\ strategies[instrument_keys[1]].position # NoPosition

\* C27: on any bar generate_signal emits at most one entry signal, and the
\* Position it creates is of that side; called on a FLAT engine with its opening
\* range, whenever the long confirmation conditions hold the outcome is that of the
\* long check alone: BUY, or, when the sized quantity is below 1, the long
\* entry's refusal (HOLD at the close, the engine FLAT), and never SHORT.
C27_LongCheckFirst ==
  SignalCall =>
    LET st == call.st
        bar == call.bar
        long == /\ bar.close > st.or_high
                /\ bar.ema[1] > bar.ema[2]
                /\ bar.rsi \in RSI_BUY_MIN..RSI_BUY_MAX
                /\ bar.volume * 10 >= VOLUME_MULTIPLIER_X10 * VolMa
                /\ USE_VWAP_FILTER => (bar.vwap # 0 /\ bar.close > bar.vwap)
        qty == calc_quantity(bar.close, call.available_capital, bar.atr)
    IN  /\ call.signal.action \in {"BUY", "SHORT"} =>
             (st.position = NoPosition /\ call.position.side = call.signal.action)
        /\ (st.position = NoPosition /\ st.or_established /\ long) =>
             /\ call.signal.action # "SHORT"
             /\ call.position.side # "SHORT"
             /\ qty >= 1 => call.signal.action = "BUY"
             /\ qty < 1 => /\ call.signal = RefusedSignal(bar.close, "BUY")
                           /\ call.position = NoPosition

\* C27 witness: a confirmed long breakout at 104.00 with a capital of 100.00 was
\* refused by the long check, and the engine stayed FLAT
C27_Witness ==
  /\ SignalCall
  /\ call.st.position = NoPosition /\ call.st.or_established
  /\ call.bar.close = 10400 /\ call.available_capital = 10000
  /\ call.signal.action = "HOLD"
  /\ call.signal.reason = "insufficient capital for BUY"
  /\ strategies[1].position = NoPosition

\* the step met an exception raised by the data calls of the scan
ScanRaised == fault = "fetch_error"

\* the step met a notification that was not sent
SinkFailed == fault \in SinkOutcomes \ {"sent"}

\* C28: an exception raised while one instrument is scanned does not abort the
\* scan: the step that meets it goes on to the next instrument of the cycle (to
\* the end of the cycle after the last one), and the session loop is left running.
C28_ScanSurvivesException ==
  [][ScanRaised' => /\ pc = "scan"
                    /\ IF idx < NumKeys THEN pc' = "scan" /\ idx' = idx + 1
                                        ELSE pc' = "end"]_vars

\* a notification that fails without credentials or with an SMTP error returns
\* to its caller: the loop is left running
SinkFailureReturned ==
  (fault \in {"no_credentials", "smtp_error"}) => pc # "crashed"

\* C29: a failure of the notification sink of any kind never reaches the trading
\* loop: the step whose notification failed leaves the loop running, and after a
\* filled exit that ended the day the ledger's Position is cleared as it is when
\* the notification is sent.
C29_SinkFailureContained ==
  [][SinkFailed' => /\ pc' # "crashed"
                    /\ (order_event'.kind = "EXIT" /\ order_event'.result = "FILLED")
                         => ~LedgerOpen']_vars

\* wait_for_fill is running or has just ended
FillCall == call.fn = "wait_for_fill"

\* C30: wait_for_fill is a bounded poll: it never polls the order status more than
\* max_wait/2 times (nor sleeps longer than max_wait seconds); it returns a price
\* only when its last poll saw the order complete, and then the average price of
\* that reply (0 if the reply has none); and it returns None, without raising, when
\* a poll sees the order cancelled or rejected, and when every one of its
\* max_wait/2 polls left the order pending.
C30_BoundedPoll ==
  FillCall =>
    LET n == Len(call.seen)
        pending == \A i \in 1..n : PendingReply(call.seen[i])
    IN  /\ call.polls = n
        /\ call.polls <= call.max_wait \div 2
        /\ call.waited <= call.max_wait
        /\ \A i \in 1..(n - 1) : PendingReply(call.seen[i])
        /\ call.result.kind = "price" =>
             /\ n >= 1
             /\ call.seen[n].status = "complete"
             /\ call.result.price = (IF call.seen[n].average_price = NoField THEN 0
                                     ELSE call.seen[n].average_price)
        /\ (n >= 1 /\ call.seen[n].data = "dict"
              /\ call.seen[n].status \in {"cancelled", "rejected"}) =>
             call.result = FillNone
        /\ (pending /\ call.result # FillRunning) =>
             (call.result = FillNone /\ n = call.max_wait \div 2)
        /\ (pending /\ call.result = FillRunning) => n <= call.max_wait \div 2

\* C30 witness: a wait of 7 seconds polled three times, the order pending each
\* time (once with the status request failed), and returned None
C30_Witness ==
  /\ FillCall
  /\ call.max_wait = 7
  /\ call.polls = 3
  /\ \A i \in 1..3 : PendingReply(call.seen[i])
  /\ call.seen[2].status = "none"
  /\ call.result = FillNone

\* the step sent the EXIT order of the scan, and its fill was not confirmed
ExitUnfilled == order_event.kind = "EXIT" /\ order_event.result = "UNFILLED"

\* the Position the engine of the scanned instrument holds after the step is the
\* one it held before it in side, quantity and entry price
RestoreKeepsTrade ==
  [][(pc = "scan" /\ ExitUnfilled') =>
       LET p0 == strategies[instrument_keys[idx]].position
           p1 == strategies'[instrument_keys[idx]].position
       IN  /\ p1.side = p0.side
           /\ p1.quantity = p0.quantity
           /\ p1.entry_price = p0.entry_price]_vars

\* C31: when the EXIT order of the scan is sent and its fill is not confirmed, the
\* engine holds afterwards the Position it held before the EXIT signal was
\* generated, every field of it: the Position the cycle found, or that Position
\* after the trailing update of the bar.
C31_UnfilledExitRestores ==
  [][(pc = "scan" /\ ExitUnfilled') =>
       LET p0 == strategies[instrument_keys[idx]].position
       IN  strategies'[instrument_keys[idx]].position \in
             {p0} \cup {MaintainedPosition(p0, bar) : bar \in OpenMarket.bars}]_vars

\* no more trades are booked than entries were filled
NoTradeBookedTwice == total_trades <= fills

\* C32: every confirmed entry fill is matched by exactly one record_trade call by
\* the time the session loop ends: at no moment are more trades booked than
\* entries were filled, and when the loop has ended the two numbers are equal.
C32_EveryFillBookedOnce ==
  /\ NoTradeBookedTwice
  /\ pc = "done" => total_trades = fills

\* the session loop is between two cycles: at the top of the while-loop
CycleBoundary == pc = "top"

\* between two cycles only the engine of the active instrument may hold a Position,
\* and the recorded entry price and quantity of an engine that holds one are those
\* of its Position
PointerCoversPositions ==
  CycleBoundary =>
    \A k \in Keys :
      strategies[k].position # NoPosition =>
        /\ active_key = k
        /\ entry_price[k] = strategies[k].position.entry_price
        /\ entry_qty[k] = strategies[k].position.quantity

\* C33: between two cycles the active-instrument pointer is set if and only if the
\* engine of that instrument holds a Position, the engine of every other
\* instrument is FLAT, and the recorded entry price and quantity of the active
\* instrument are those of its Position.
C33_PointerMatchesPosition ==
  CycleBoundary =>
    /\ active_key # NoKey => strategies[active_key].position # NoPosition
    /\ \A k \in Keys :
         strategies[k].position # NoPosition =>
           /\ active_key = k
           /\ entry_price[k] = strategies[k].position.entry_price
           /\ entry_qty[k] = strategies[k].position.quantity

\* the step is the forced flatten at the top of the loop: it booked the open
\* Position and ended the loop
ForcedFlatten == pc = "top" /\ pc' = "done" /\ total_trades' = total_trades + 1

\* the forced flatten leaves the open P&L at 0: the total P&L of the summary is
\* the realised P&L
ForcedFlattenClearsOpenPnl ==
  [][ForcedFlatten => (open_pnl' = 0 /\ total_pnl' = realised_pnl')]_vars

\* C34: whenever no engine holds a Position the open P&L is 0 and the total P&L is
\* the realised P&L; and the forced flatten (force-exit time, max loss) leaves the
\* open P&L at 0, so that the summary does not count the P&L of the closed
\* Position as realised and as open.
C34_FlatMeansNoOpenPnl ==
  /\ [](OpenKeys = {} => (open_pnl = 0 /\ total_pnl = realised_pnl))
  /\ ForcedFlattenClearsOpenPnl

\* the sum of the P&L of the trades in the log, in paise
RECURSIVE LoggedPnl(_)
LoggedPnl(log) ==
  IF log = <<>> THEN 0 ELSE log[Len(log)] + LoggedPnl(SubSeq(log, 1, Len(log) - 1))

\* the trade count is the length of the log, the winning trades are among the
\* completed ones, and update_open_pnl leaves the books of the trades alone
CountsMatchLog ==
  /\ total_trades = Len(trades)
  /\ winning_trades <= total_trades
  /\ call.fn = "update_open_pnl" =>
       /\ open_pnl = call.pnl
       /\ realised_pnl = call.before.realised_pnl
       /\ total_trades = call.before.total_trades
       /\ winning_trades = call.before.winning_trades
       /\ trades = call.before.trades

\* C35 as stated: after any sequence of record_trade and update_open_pnl calls
\* the realised P&L is the sum of the P&L of the trades in the log, the trade
\* count is the length of the log and the winning trades are no more than the
\* completed ones; update_open_pnl changes none of them.
C35_BooksMatchLog ==
  /\ realised_pnl = 100 * LoggedPnl(trades)
  /\ CountsMatchLog

\* C35 amended: the log holds the P&L of each trade rounded to two decimals, so
\* the realised P&L is the sum of the logged P&L to within half a paisa for each
\* trade in the log; the rest as stated.
C35_BooksMatchLogRounded ==
  /\ realised_pnl - 100 * LoggedPnl(trades) <= 50 * Len(trades)
  /\ 100 * LoggedPnl(trades) - realised_pnl <= 50 * Len(trades)
  /\ CountsMatchLog

\* C35 witness: two trades booked at 100.0040, a long of 10 (+0.04, logged as
\* 0.04) and a long of 1 (+0.004, logged as 0.00), and the open P&L then set
C35_Witness ==
  /\ call.fn = "update_open_pnl"
  /\ call.pnl = 83000
  /\ total_trades = 2
  /\ trades = <<4, 0>>
  /\ realised_pnl = 440
  /\ winning_trades = 2

\* trailing activated in the call of the position management
ActivationCall ==
  /\ call.fn = "manage_position"
  /\ ~call.before.trailing_active
  /\ call.maintained.trailing_active

\* the stop is strictly on the losing side of the close
OnLosingSide(side, stop, close) == IF side = "BUY" THEN stop < close ELSE stop > close

\* C36 as stated: in the cycle in which trailing activates, the breakeven stop is
\* strictly on the losing side of that cycle's close, whatever the (positive)
\* initial risk, and the cycle does not end in a stop-loss EXIT.
C36_BreakevenBehindClose ==
  ActivationCall =>
    /\ call.before.initial_risk > 0
    /\ OnLosingSide(call.before.side, BreakevenStop(call.before), call.bar.close)
    /\ call.signal.reason # "stop-loss"

\* C36 amended: the same for every initial risk greater than the breakeven
\* buffer of 0.10.
C36_BreakevenBehindCloseBeyondBuffer ==
  (ActivationCall /\ call.before.initial_risk > BREAKEVEN_BUFFER) =>
    /\ OnLosingSide(call.before.side, BreakevenStop(call.before), call.bar.close)
    /\ call.signal.reason # "stop-loss"

\* C36 witness: a LONG entered at 24.00 with initial risk 0.12 meets a close of
\* 24.12 with no trail possible beyond breakeven: trailing activates, the stop is
\* at 24.10 and the Position is held
C36_Witness ==
  /\ ActivationCall
  /\ call.before.side = "BUY" /\ call.before.entry_price = 2400
  /\ call.before.initial_risk = 12
  /\ call.bar.close = 2412 /\ call.bar.atr = 100
  /\ call.position.stop_loss = 2410
  /\ call.signal.action = "HOLD"

\* a direct call of generate_signal that emitted an entry signal
EntrySignalCall == SignalCall /\ call.signal.action \in {"BUY", "SHORT"}

\* C37: every BUY or SHORT signal generate_signal emits has a quantity of at
\* least 1, which the Position created carries; the quantity times the entry
\* price (the close) is within the available capital passed in; and the quantity
\* times the risk per unit (1.5 x ATR, or 0.5% of the price without an ATR) is
\* within the risk budget per trade.
C37_EntrySizedWithinBudgets ==
  EntrySignalCall =>
    /\ call.signal.quantity >= 1
    /\ call.position.quantity = call.signal.quantity
    /\ call.signal.ltp = call.bar.close
    /\ call.signal.quantity * call.bar.close <= call.available_capital
    /\ call.signal.quantity * RiskDistance(Settings, call.bar.close, call.bar.atr)
         <= RISK_PER_TRADE * 10000

\* C37 witness: a BUY at 104.00 with ATR 2.00 sized by the risk budget: 83 shares
\* risk 249.00 of the 250.00, one more would exceed it, and cost 8632.00 of 12500.00
C37_Witness ==
  /\ EntrySignalCall
  /\ call.signal.action = "BUY"
  /\ call.bar.close = 10400 /\ call.bar.atr = 200
  /\ call.available_capital = EFFECTIVE_CAPITAL
  /\ call.signal.quantity = 83
  /\ call.position.initial_risk = 300

\* the closing order for Position p on key: the opposite side, p's quantity
ClosesPosition(order, key, p) ==
  /\ order.instrument_token = key
  /\ order.quantity = p.quantity
  /\ p.side = "BUY" => order.transaction_type = "SELL"
  /\ p.side = "SHORT" => order.transaction_type = "BUY"

\* the EXIT results the scan of the instrument at idx can get from its engine
ScanExits ==
  {r \in ScanResults(OpenMarket, instrument_keys[idx]) : r.signal.action = "EXIT"}

\* C38: every EXIT signal for a Position the engine holds, from the scan of its
\* instrument or from the live stop-loss check, carries the quantity and the
\* side of that Position, and the closing order built for it is on the opposite
\* side (SELL for a long, BUY for a short) for that quantity on that instrument.
C38_ExitOrderMirrorsPosition ==
  /\ (pc = "scan" /\ strategies[instrument_keys[idx]].position # NoPosition) =>
       \A r \in ScanExits :
         LET key == instrument_keys[idx]
             p == strategies[key].position
         IN  /\ r.signal.quantity = p.quantity
             /\ r.signal.side = p.side
             /\ r.position = NoPosition
             /\ ClosesPosition(ExitOrder(key, r.signal), key, p)
  /\ pc = "livesl" =>
       LET p == strategies[active_key].position
           signal == LiveExitSignal(p, ltp)
       IN  /\ p # NoPosition
           /\ signal.action = "EXIT"
           /\ signal.quantity = p.quantity
           /\ signal.side = p.side
           /\ ClosesPosition(ExitOrder(active_key, signal), active_key, p)

\* C38 witness: the scan reaches the instrument whose engine holds a short
\* Position and a bar closes it: the order is a BUY for the Position's quantity
C38_Witness ==
  /\ pc = "scan"
  /\ active_key = instrument_keys[idx]
  /\ strategies[active_key].position # NoPosition
  /\ strategies[active_key].position.side = "SHORT"
  /\ \E r \in ScanExits :
       ExitOrder(active_key, r.signal) =
         [instrument_token |-> active_key,
          quantity |-> strategies[active_key].position.quantity,
          transaction_type |-> "BUY"]

\* the step filled an entry on the instrument at idx: the engine's Position is
\* the one generate_signal created for some bar of the scan, rebased on the fill
\* price with that bar's ATR, and the loop's entry details are the fill's
EntryRebased ==
  (pc = "scan" /\ EntryFilled') =>
    LET key == instrument_keys[idx]
        p == strategies'[key].position
        fill == order_event'.fill
    IN  /\ active_key' = key
        /\ entry_price'[key] = fill
        /\ p # NoPosition
        /\ p.entry_price = fill
        /\ p.peak_price = fill
        /\ entry_qty'[key] = p.quantity
        /\ \E r \in ScanResults(CalmMarket, key) :
             LET st == calc_stop_target(fill, r.atr, p.side)
             IN  /\ r.signal.action = p.side
                 /\ r.signal.quantity = p.quantity
                 /\ r.signal.ltp - fill \in {-s : s \in CalmMarket.slippages}
                 /\ p.stop_loss = st.stop_loss
                 /\ p.target = st.target
                 /\ p.initial_risk = st.initial_risk

\* the entry price the loop keeps for an instrument changes only when an entry
\* fills on it, to the fill price, or when it is reset
FillPriceKept ==
  \A k \in Keys :
    entry_price'[k] # entry_price[k] =>
      \/ EntryFilled' /\ active_key' = k /\ entry_price'[k] = order_event'.fill
      \/ entry_price'[k] = 0

\* the exit prices a booking of this step may have used: the fill price of the
\* closing order, or a last traded price, or the entry price when there is none
BookingExits ==
  IF order_event'.kind = "EXIT" /\ order_event'.result = "FILLED"
  THEN {order_event'.fill}
  ELSE {ltp, entry_price[active_key]} \cup CalmMarket.ltps

\* the step booked a trade: its P&L is the one of the Position's side and
\* quantity between the entry price kept since the fill and an exit price
BookedFromFill ==
  total_trades' = total_trades + 1 =>
    /\ active_key # NoKey
    /\ strategies[active_key].position # NoPosition
    /\ strategies[active_key].position.entry_price = entry_price[active_key]
    /\ strategies[active_key].position.quantity = entry_qty[active_key]
    /\ \E exit \in BookingExits :
         realised_pnl' - realised_pnl =
           TradePnl(strategies[active_key].position.side, entry_price[active_key],
                    exit, entry_qty[active_key])

\* C39: after a confirmed entry fill the Position's entry price and peak price
\* are the fill price, its stop, target and initial risk are those
\* calc_stop_target gives for the fill price and the bar's ATR, its quantity is
\* the signal's; the loop keeps the fill price as the entry price until the trade
\* is closed, and the P&L booked for the trade is computed from it.
C39_PositionRebasedOnFill ==
  [][EntryRebased /\ FillPriceKept /\ BookedFromFill]_vars

\* C39 witness: a BUY signalled at 104.00 with ATR 2.00 fills at 103.90: the
\* Position of 83 shares enters and peaks at 103.90 with stop 100.90, target
\* 108.90 and initial risk 3.00, and the loop keeps 103.90 as the entry price
C39_Witness ==
  /\ EntryFilled
  /\ order_event.fill = 10390
  /\ active_key # NoKey
  /\ entry_price[active_key] = 10390
  /\ entry_qty[active_key] = 83
  /\ strategies[active_key].position =
       [side |-> "BUY", entry_price |-> 10390, quantity |-> 83, stop_loss |-> 10090,
        target |-> 10890, initial_risk |-> 300, peak_price |-> 10390,
        trailing_active |-> FALSE]

====
